---- MODULE Spec2Model ----
(***************************************************************************)
(* Selim: online score follower with adaptive accompaniment.              *)
(*                                                                         *)
(* Time is counted in ticks of 10 ms (a std::time::Duration restricted to  *)
(* whole ticks).  An f32 and a Duration that results from scaling by an    *)
(* f32 are exact rationals [num, den]; den = 0 stands for the non-finite   *)
(* f32 values (num = 0: NaN, num > 0: +infinity).  All indices are 0-based *)
(* as in the source; At(s, i) reads element i of a vector.                 *)
(***************************************************************************)
EXTENDS Integers, Sequences, FiniteSets, TLC

VARIABLES
    algo,                   \* which ScoreFollower implementation is in use
    score,                  \* expectation score (ScoreVec), read-only
    live,                   \* follower.live
    matches,                \* follower.matches
    ignored,                \* follower.ignored
    match_offsets_by_pitch, \* PolyphonoFlex.match_offsets_by_pitch
    new_live_index,         \* the caller's index of the first unprocessed live note
    panicked,               \* a Rust panic has aborted the process
    playback_score,         \* playback score (Vec<ScoreEvent>), read-only
    playback_head,          \* index of the next playback event to emit
    delay,                  \* the --delay argument
    score_wait,             \* the wait returned by the latest play_next
    sent,                   \* history: the messages emitted so far; the event loop adds the time
    last_play,              \* history: the arguments and outcome of the latest play_next
    now,                    \* wall clock
    performance,            \* the MIDI messages the performer sends, with their times
    arrived,                \* how many of them the input callback has seen
    rx,                     \* the channel from the input callback to the event loop
    caught_ctrl_c,          \* the shutdown flag
    caught_at,              \* history: when the shutdown flag was set
    handler,                \* where the interrupt handler is
    signals,                \* history: how many interrupt signals the handler has taken
    conn_ok,                \* whether the output port accepts messages
    pc,                     \* where the event loop is
    play,                   \* run's play
    quit,                   \* run's quit
    buf,                    \* run's buf
    select_start,           \* when the event loop began its latest wait
    arg,                    \* a --input-channels / --output-channels argument, as characters
    typed,                  \* history: the fields the argument was written from
    channels,               \* the result of Channels::from_str(arg)
    overflow_checks,        \* whether the build checks integer overflow (debug profile)
    caller_prev_match,      \* lib.rs follow_score: the prev_match argument
    caller_stretch_factor,  \* lib.rs follow_score: the prev_stretch_factor argument
    followed,               \* the result of lib.rs follow_score
    field_names,            \* ABC header field names, as characters
    orderings               \* the results of OrderedInfoFieldName::cmp on them

follower_vars == <<algo, score, live, matches, ignored, match_offsets_by_pitch,
                   new_live_index, panicked>>

play_vars == <<playback_score, playback_head, delay, score_wait, sent, last_play>>

loop_vars == <<now, performance, arrived, rx, caught_ctrl_c, caught_at, handler, signals,
              conn_ok, pc, play, quit,
               buf, select_start>>

cli_vars == <<arg, typed, channels, overflow_checks>>

lib_vars == <<caller_prev_match, caller_stretch_factor, followed>>

abc_vars == <<field_names, orderings>>

vars == <<follower_vars, play_vars, loop_vars, cli_vars, lib_vars, abc_vars>>

-----------------------------------------------------------------------------
(* Bounds of the model *)

MaxScoreLen == 3
MaxLiveLen == 2

ScorePitches == {60, 62}
LivePitches == {60, 61, 62}
AllPitches == ScorePitches \cup LivePitches
ScoreGaps == {0, 1}
LiveGaps == {0, 1}

-----------------------------------------------------------------------------
(* Vectors and numbers *)

At(s, i) == s[i + 1]

LastOf(s) == s[Len(s)]

None == -1

RECURSIVE GCD(_, _)
GCD(a, b) == IF b = 0 THEN a ELSE GCD(b, a % b)

\* the f32 (or scaled Duration) n / d, for n >= 0 and d >= 0
Ratio(n, d) ==
    IF d = 0
    THEN [num |-> IF n = 0 THEN 0 ELSE 1, den |-> 0]
    ELSE LET g == GCD(n, d) IN [num |-> n \div g, den |-> d \div g]

One == [num |-> 1, den |-> 1]
ZeroDur == [num |-> 0, den |-> 1]
\* the marker of an arithmetic panic (Duration underflow, non-finite Duration)
Panic == [num |-> -1, den |-> -1]

IsPanic(x) == x.den < 0
IsFinite(x) == x.den > 0
IsNaN(x) == x.den = 0 /\ x.num = 0

FromTicks(t) == [num |-> t, den |-> 1]

\* 1.0 / k in f32
Reciprocal(k) ==
    IF IsNaN(k) THEN k
    ELSE IF k.den = 0 THEN [num |-> 0, den |-> 1]
    ELSE IF k.num = 0 THEN [num |-> 1, den |-> 0]
    ELSE [num |-> k.den, den |-> k.num]

RLess(a, b) == a.num * b.den < b.num * a.den
RLeq(a, b) == a.num * b.den <= b.num * a.den
RAdd(a, b) == Ratio(a.num * b.den + b.num * a.den, a.den * b.den)
\* a - b for a >= b
RSub(a, b) == Ratio(a.num * b.den - b.num * a.den, a.den * b.den)

\* Duration - Duration on whole ticks: panics on underflow
DurSub(a, b) == IF a < b THEN None ELSE a - b

absolute_time_difference(t1, t2) ==
    IF RLess(t2, t1)
    THEN Ratio(t1.num * t2.den - t2.num * t1.den, t1.den * t2.den)
    ELSE Ratio(t2.num * t1.den - t1.num * t2.den, t1.den * t2.den)

\* elapsed_live / elapsed_score as f32; a negative argument is a panic of
\* the Duration subtraction that computed it
get_stretch_factor(elapsed_score, elapsed_live) ==
    IF elapsed_score < 0 \/ elapsed_live < 0 THEN Panic
    ELSE Ratio(elapsed_live, elapsed_score)

\* Duration scaled by an f32 factor; a non-finite result cannot be a Duration
stretch(duration, stretch_factor) ==
    IF IsPanic(duration) \/ ~IsFinite(stretch_factor) THEN Panic
    ELSE Ratio(duration.num * stretch_factor.num, duration.den * stretch_factor.den)

ScoreNote(t, p, v) == [time |-> t, pitch |-> p, velocity |-> v]

-----------------------------------------------------------------------------
(* algo01_homophonopedantic.rs *)

MatchPerScore(score_index, live_index, stretch_factor, score_velocity, live_velocity) ==
    [score_index |-> score_index, live_index |-> live_index,
     stretch_factor |-> stretch_factor,
     score_velocity |-> score_velocity, live_velocity |-> live_velocity]

RECURSIVE position_from(_, _)
position_from(index, pitch) ==
    IF index >= Len(score) THEN None
    ELSE IF At(score, index).pitch = pitch THEN index
    ELSE position_from(index + 1, pitch)

\* mutant: the search restarts at the beginning of the score
find_next_match_from_start(index, pitch) == position_from(0, pitch)

\* mutant: the note at the cursor is taken whatever its pitch
find_next_match_any_pitch(index, pitch) ==
    IF index >= Len(score) THEN None ELSE index

\* mutant: the note after the first one of the pitch is taken when it has
\* the pitch too
find_next_match_prefers_second(index, pitch) ==
    LET first == position_from(index, pitch)
    IN IF first = None THEN None
       ELSE IF first + 1 < Len(score) /\ At(score, first + 1).pitch = pitch
       THEN first + 1 ELSE first

find_next_match_starting_at(index, pitch) == position_from(index, pitch)

\* mutant: without a prior match the factor is taken from the absolute times
HP_get_stretch_factor_from_origin(new_match_score_index, new_match_in_live_time) ==
    Ratio(new_match_in_live_time, At(score, new_match_score_index).time)

HP_get_stretch_factor_at_new_match(new_match_score_index, new_match_in_live_time) ==
    IF matches = <<>> THEN One
    ELSE LET last == LastOf(matches)
             new_match_in_score == At(score, new_match_score_index)
             prev_match_in_score == At(score, last.score_index)
             prev_match_in_live == At(live, last.live_index)
         IN get_stretch_factor(
                DurSub(new_match_in_score.time, prev_match_in_score.time),
                DurSub(new_match_in_live_time, prev_match_in_live.time))

\* mutant: an ignored live note moves the cursor on by one score note
RECURSIVE HP_find_loop_ignore_advances(_, _, _)
HP_find_loop_ignore_advances(i, score_pointer, acc) ==
    IF i >= Len(live) THEN acc
    ELSE LET live_note == At(live, i)
             matching_index == find_next_match_starting_at(score_pointer, live_note.pitch)
         IN IF matching_index # None
            THEN LET stretch_factor ==
                         HP_get_stretch_factor_at_new_match(matching_index, live_note.time)
                     new_match == MatchPerScore(matching_index, i, stretch_factor,
                                                At(score, matching_index).velocity,
                                                live_note.velocity)
                 IN IF IsPanic(stretch_factor)
                    THEN [acc EXCEPT !.panic = TRUE]
                    ELSE HP_find_loop_ignore_advances(i + 1, matching_index + 1,
                                      [acc EXCEPT !.matches = Append(@, new_match)])
            ELSE HP_find_loop_ignore_advances(i + 1, score_pointer + 1,
                              [acc EXCEPT !.ignored = Append(@, i)])

\* the for loop of find_new_matches from live index i on
RECURSIVE HP_find_loop(_, _, _)
HP_find_loop(i, score_pointer, acc) ==
    IF i >= Len(live) THEN acc
    ELSE LET live_note == At(live, i)
             matching_index == find_next_match_starting_at(score_pointer, live_note.pitch)
         IN IF matching_index # None
            THEN LET stretch_factor ==
                         HP_get_stretch_factor_at_new_match(matching_index, live_note.time)
                     new_match == MatchPerScore(matching_index, i, stretch_factor,
                                                At(score, matching_index).velocity,
                                                live_note.velocity)
                 IN IF IsPanic(stretch_factor)
                    THEN [acc EXCEPT !.panic = TRUE]
                    ELSE HP_find_loop(i + 1, matching_index + 1,
                                      [acc EXCEPT !.matches = Append(@, new_match)])
            ELSE HP_find_loop(i + 1, score_pointer,
                              [acc EXCEPT !.ignored = Append(@, i)])

HP_find_new_matches(nli) ==
    LET score_pointer == IF matches = <<>> THEN 0 ELSE LastOf(matches).score_index + 1
    IN HP_find_loop(nli, score_pointer,
                    [matches |-> <<>>, ignored |-> <<>>, offsets |-> <<>>, panic |-> FALSE])

-----------------------------------------------------------------------------
(* algo02_polyphonoflex.rs *)

InitialMinTimeDiff == 999900

MatchPerPitch(score_per_pitch_index, live_index, stretch_factor, score_velocity, live_velocity) ==
    [score_per_pitch_index |-> score_per_pitch_index, live_index |-> live_index,
     stretch_factor |-> stretch_factor,
     score_velocity |-> score_velocity, live_velocity |-> live_velocity]

\* the score indices of the notes of one pitch, in score order
RECURSIVE offsets_of_pitch(_, _)
offsets_of_pitch(pitch, i) ==
    IF i >= Len(score) THEN <<>>
    ELSE IF At(score, i).pitch = pitch
         THEN <<i>> \o offsets_of_pitch(pitch, i + 1)
         ELSE offsets_of_pitch(pitch, i + 1)

score_by_pitch(pitch) == offsets_of_pitch(pitch, 0)

score_offsets_by_pitch == [p \in AllPitches |-> score_by_pitch(p)]

to_match_per_score(m) ==
    LET pitch == At(live, m.live_index).pitch
        score_per_pitch == score_offsets_by_pitch[pitch]
        score_index == At(score_per_pitch, m.score_per_pitch_index)
    IN MatchPerScore(score_index, m.live_index, m.stretch_factor,
                     m.score_velocity, m.live_velocity)

live_time_mapped(live_time) ==
    IF matches = <<>> THEN ZeroDur
    ELSE LET last_match == LastOf(matches)
             elapsed == DurSub(live_time, At(live, last_match.live_index).time)
         IN IF elapsed < 0 THEN Panic
            ELSE stretch(FromTicks(elapsed), Reciprocal(last_match.stretch_factor))

get_next_unmatched_offset_for_pitch(pitch) ==
    LET match_offsets_for_pitch == match_offsets_by_pitch[pitch]
    IN IF match_offsets_for_pitch # <<>>
       THEN At(matches, LastOf(match_offsets_for_pitch)).score_per_pitch_index + 1
       ELSE 0

PF_get_stretch_factor_at_new_match(new_match_in_score, new_match_in_live_time) ==
    IF matches = <<>> THEN One
    ELSE LET last_match == LastOf(matches)
             prev_match_in_live == At(live, last_match.live_index)
             score_for_pitch == score_offsets_by_pitch[prev_match_in_live.pitch]
             score_note_idx == At(score_for_pitch, last_match.score_per_pitch_index)
             prev_match_in_score == At(score, score_note_idx)
         IN get_stretch_factor(
                DurSub(new_match_in_score.time, prev_match_in_score.time),
                DurSub(new_match_in_live_time, prev_match_in_live.time))

\* the scan of find_new_match over score_for_pitch from offset i on; best is
\* best_match_pitch_score_index so far
RECURSIVE PF_scan(_, _, _, _, _)
PF_scan(score_for_pitch, mapped, i, best, min_time_diff) ==
    IF i >= Len(score_for_pitch) THEN best
    ELSE LET score_note == At(score, At(score_for_pitch, i))
             time_diff == absolute_time_difference(FromTicks(score_note.time), mapped)
         IN IF RLess(time_diff, min_time_diff)
            THEN PF_scan(score_for_pitch, mapped, i + 1, i, time_diff)
            ELSE best

\* Some(MatchPerPitch) as a one-element sequence, None as the empty one,
\* a panic as <<Panic>>
find_new_match(pitch, live_index, live_time, live_velocity) ==
    LET next_unmatched_offset_for_pitch == get_next_unmatched_offset_for_pitch(pitch)
        score_for_pitch == score_offsets_by_pitch[pitch]
        mapped == live_time_mapped(live_time)
    IN IF next_unmatched_offset_for_pitch > Len(score_for_pitch) \/ IsPanic(mapped)
       THEN <<Panic>>
       ELSE LET index == PF_scan(score_for_pitch, mapped, next_unmatched_offset_for_pitch,
                                 None, FromTicks(InitialMinTimeDiff))
            IN IF index = None THEN <<>>
               ELSE LET best_match_score_note == At(score, At(score_for_pitch, index))
                        stretch_factor ==
                            PF_get_stretch_factor_at_new_match(best_match_score_note, live_time)
                    IN IF IsPanic(stretch_factor) THEN <<Panic>>
                       ELSE <<MatchPerPitch(index, live_index, stretch_factor,
                                            best_match_score_note.velocity, live_velocity)>>

\* the for loop of find_new_matches from live index i on
RECURSIVE PF_find_loop(_, _)
PF_find_loop(i, acc) ==
    IF i >= Len(live) THEN acc
    ELSE LET live_note == At(live, i)
             found == find_new_match(live_note.pitch, i, live_note.time, live_note.velocity)
         IN IF found = <<Panic>> THEN [acc EXCEPT !.panic = TRUE]
            ELSE IF found # <<>>
            THEN PF_find_loop(i + 1,
                     [acc EXCEPT !.offsets = Append(@, <<live_note.pitch, Len(acc.matches)>>),
                                 !.matches = Append(@, found[1])])
            ELSE PF_find_loop(i + 1, [acc EXCEPT !.ignored = Append(@, i)])

PF_find_new_matches(nli) ==
    PF_find_loop(nli, [matches |-> <<>>, ignored |-> <<>>, offsets |-> <<>>, panic |-> FALSE])

\* mutant: the offsets are pushed as find_new_matches counted them, from 0
RECURSIVE push_match_offsets_local(_, _, _)
push_match_offsets_local(mobp, offsets, matches_offset) ==
    IF offsets = <<>> THEN mobp
    ELSE push_match_offsets_local(
             [mobp EXCEPT ![Head(offsets)[1]] = Append(@, Head(offsets)[2])],
             Tail(offsets), matches_offset)

\* the loop of follow_score that records the new matches per pitch
RECURSIVE push_match_offsets(_, _, _)
push_match_offsets(mobp, offsets, matches_offset) ==
    IF offsets = <<>> THEN mobp
    ELSE push_match_offsets(
             [mobp EXCEPT ![Head(offsets)[1]] = Append(@, matches_offset + Head(offsets)[2])],
             Tail(offsets), matches_offset)

-----------------------------------------------------------------------------
(* The ScoreFollower operations *)

\* mutant: the first new live note is skipped
find_new_matches_skip_first(nli) ==
    IF algo = "HomophonoPedantic" THEN HP_find_new_matches(nli + 1)
    ELSE PF_find_new_matches(nli + 1)

find_new_matches(nli) ==
    IF algo = "HomophonoPedantic" THEN HP_find_new_matches(nli)
    ELSE PF_find_new_matches(nli)

\* the global-score view of a match, whichever follower made it
match_per_score(m) ==
    IF algo = "HomophonoPedantic" THEN m ELSE to_match_per_score(m)

matches_slice == [i \in 1..Len(matches) |-> match_per_score(matches[i])]

push_live(note) ==
    live' = Append(live, note)

\* mutant: the new matches replace the old ones
follow_score_replace(nli) ==
    LET found == find_new_matches(nli)
    IN IF found.panic
       THEN /\ panicked' = TRUE
            /\ UNCHANGED <<matches, ignored, match_offsets_by_pitch>>
       ELSE /\ matches' = found.matches
            /\ ignored' = ignored \o found.ignored
            /\ match_offsets_by_pitch' =
                   push_match_offsets(match_offsets_by_pitch, found.offsets, 0)
            /\ UNCHANGED panicked

\* mutant: what was found before the failure is committed
follow_score_commit_partial(nli) ==
    LET found == find_new_matches(nli)
    IN /\ panicked' = found.panic
       /\ matches' = matches \o found.matches
       /\ ignored' = ignored \o found.ignored
       /\ match_offsets_by_pitch' =
              push_match_offsets(match_offsets_by_pitch, found.offsets, Len(matches))

follow_score(nli) ==
    LET found == find_new_matches(nli)
    IN IF found.panic
       THEN /\ panicked' = TRUE
            /\ UNCHANGED <<matches, ignored, match_offsets_by_pitch>>
       ELSE /\ matches' = matches \o found.matches
            /\ ignored' = ignored \o found.ignored
            /\ match_offsets_by_pitch' =
                   push_match_offsets(match_offsets_by_pitch, found.offsets, Len(matches))
            /\ UNCHANGED panicked

-----------------------------------------------------------------------------
(* playback.rs *)

IdleWait == 360000
EndWait == 100
ReenterWait == 1

NoteOnStatus == 144
NoteOffStatus == 128
ControllerStatus == 176

ScoreEvent(t, m) == [time |-> t, message |-> m]

MidiMessage(kind, channel, key, vel) ==
    [kind |-> kind, channel |-> channel, key |-> key, vel |-> vel]

StatusOf(kind) ==
    CASE kind = "NoteOn" -> NoteOnStatus
      [] kind = "NoteOff" -> NoteOffStatus
      [] OTHER -> ControllerStatus

\* MidiEvent::write: status byte with the channel in its low nibble, two data bytes
write(m) == <<StatusOf(m.kind) + m.channel, m.key, m.vel>>

\* mutant: every note-on gets the live velocity, also a note-on of velocity 0
encode_midi_event_all_note_ons(event, velocity) ==
    IF event.message.kind = "NoteOn"
    THEN write([event.message EXCEPT !.vel = velocity])
    ELSE write(event.message)

encode_midi_event(event, velocity) ==
    LET midi_event == event.message
        rme == IF midi_event.kind = "NoteOn" /\ midi_event.vel = 0 THEN midi_event
               ELSE IF midi_event.kind = "NoteOn"
                    THEN MidiMessage("NoteOn", midi_event.channel, midi_event.key, velocity)
                    ELSE midi_event
    IN write(rme)

\* the loop of play_past_moments; midi_data holds [index, bytes] of the events put out
RECURSIVE play_moment(_, _, _, _)
play_moment(head, moment_to_play, velocity, midi_data) ==
    IF head >= Len(playback_score) THEN [buf |-> midi_data, head |-> head]
    ELSE LET score_event == At(playback_score, head)
         IN IF score_event.time > moment_to_play THEN [buf |-> midi_data, head |-> head]
            ELSE play_moment(head + 1, moment_to_play, velocity,
                             Append(midi_data,
                                    [index |-> head,
                                     bytes |-> encode_midi_event(score_event, velocity)]))

\* mutant: only the event at the head is put out
play_past_moments_one_event(head, score_calculated_moment, velocity) ==
    LET moment_to_play == At(playback_score, head).time
    IN IF RLeq(FromTicks(moment_to_play), score_calculated_moment)
       THEN [buf |-> <<[index |-> head,
                        bytes |-> encode_midi_event(At(playback_score, head), velocity)]>>,
             head |-> head + 1]
       ELSE [buf |-> <<>>, head |-> head]

\* mutant: the due events are put out and the head is left where it was
play_past_moments_rewind(head, score_calculated_moment, velocity) ==
    LET moment_to_play == At(playback_score, head).time
    IN IF RLeq(FromTicks(moment_to_play), score_calculated_moment)
       THEN [buf |-> play_moment(head, moment_to_play, velocity, <<>>).buf, head |-> head]
       ELSE [buf |-> <<>>, head |-> head]

play_past_moments(head, score_calculated_moment, velocity) ==
    LET moment_to_play == At(playback_score, head).time
    IN IF RLeq(FromTicks(moment_to_play), score_calculated_moment)
       THEN play_moment(head, moment_to_play, velocity, <<>>)
       ELSE [buf |-> <<>>, head |-> head]

PlayResult(outcome, midi_data, head, wait) ==
    [outcome |-> outcome, buf |-> midi_data, head |-> head, wait |-> wait]

\* ts = ts_prev + stretch(t - t_prev + delay, 1 / k) for the latest match
score_time_now(t, d) ==
    LET prev_match == LastOf(matches_slice)
        t_prev == At(live, prev_match.live_index).time
        ts_prev == At(score, prev_match.score_index).time
        dts == stretch(FromTicks(t - t_prev + d), Reciprocal(prev_match.stretch_factor))
    IN IF IsPanic(dts) THEN Panic ELSE RAdd(FromTicks(ts_prev), dts)

\* the wait until the event at new_head, once the due events are out
next_wait(new_head, ts, k) ==
    IF new_head >= Len(playback_score) THEN FromTicks(EndWait)
    ELSE LET ts_next == FromTicks(At(playback_score, new_head).time)
         IN IF RLess(ts_next, ts) THEN FromTicks(ReenterWait)
            ELSE stretch(RSub(ts_next, ts), k)

\* play_next of playback.rs; matches is not empty
play_next(head, t, d) ==
    IF head >= Len(playback_score)
    THEN PlayResult("ok", <<>>, head, FromTicks(IdleWait))
    ELSE LET prev_match == LastOf(matches_slice)
             t_prev == At(live, prev_match.live_index).time
             k == prev_match.stretch_factor
         IN IF t < t_prev THEN PlayResult("err", <<>>, head, ZeroDur)
            ELSE LET ts == score_time_now(t, d)
                 IN IF IsPanic(ts) THEN PlayResult("panic", <<>>, head, ZeroDur)
                    ELSE LET played == play_past_moments(head, ts, prev_match.live_velocity)
                             dt_next == next_wait(played.head, ts, k)
                         IN IF IsPanic(dt_next)
                            THEN PlayResult("panic", <<>>, head, ZeroDur)
                            ELSE PlayResult("ok", played.buf, played.head, dt_next)

\* play_next of main.rs, which run calls: t - t_prev is not guarded
run_play_next(head, t, d) ==
    LET r == play_next(head, t, d)
    IN IF r.outcome = "err" THEN PlayResult("panic", <<>>, head, ZeroDur) ELSE r

-----------------------------------------------------------------------------
(* A caller of the follower: notes arrive with non-decreasing timestamps, *)
(* and follow_score is told the index of the first note it has not seen.  *)

RECURSIVE ScoresOfLen(_)
ScoresOfLen(n) ==
    IF n = 0 THEN {<<>>}
    ELSE {Append(s, ScoreNote((IF s = <<>> THEN 0 ELSE LastOf(s).time) + g, p, 100)) :
              s \in ScoresOfLen(n - 1), g \in ScoreGaps, p \in ScorePitches}

\* a score in which one note is written twice at the same time
RepeatedNoteScores ==
    {<<ScoreNote(0, 62, 100), ScoreNote(0, 60, 100), ScoreNote(0, 60, 100),
       ScoreNote(1, 60, 100)>>}

\* a score whose only note lies 9999 s after its start
LateNoteScores == {<<ScoreNote(InitialMinTimeDiff, 60, 100)>>}

Scores ==
    UNION {ScoresOfLen(n) : n \in 1..MaxScoreLen} \cup RepeatedNoteScores \cup LateNoteScores

Algos == {"HomophonoPedantic", "PolyphonoFlex"}

\* PolyphonoFlex::new / HomophonoPedantic::new
NewFollower ==
    /\ live = <<>>
    /\ matches = <<>>
    /\ ignored = <<>>
    /\ match_offsets_by_pitch = [p \in AllPitches |-> <<>>]
    /\ new_live_index = 0
    /\ panicked = FALSE

NoPlay == [called |-> FALSE, t |-> 0, head |-> 0, nmatches |-> 0, outcome |-> "ok"]

\* the scheduler's state at the start of run
NewPlayback ==
    /\ playback_head = 0
    /\ score_wait = FromTicks(100)
    /\ sent = <<>>
    /\ last_play = NoPlay

\* the follower and the scheduler are driven without the event loop
NoLoop ==
    /\ now = 0
    /\ performance = <<>>
    /\ arrived = 0
    /\ rx = <<>>
    /\ caught_ctrl_c = FALSE
    /\ caught_at = 0
    /\ handler = "idle"
    /\ signals = 0
    /\ conn_ok = TRUE
    /\ pc = "top"
    /\ play = FALSE
    /\ quit = FALSE
    /\ buf = <<>>
    /\ select_start = 0

\* no argument is being parsed
NotParsed == [outcome |-> "none"]

NothingTyped == [track |-> <<>>, midi_channels |-> <<>>]

NoArgument ==
    /\ arg = <<>>
    /\ typed = NothingTyped
    /\ channels = NotParsed
    /\ overflow_checks = TRUE

\* the free function follow_score of lib.rs is not called
NotFollowed == [outcome |-> "none"]

NoLibCall ==
    /\ caller_prev_match = <<>>
    /\ caller_stretch_factor = One
    /\ followed = NotFollowed

\* no header field names are being compared
NotCompared == [outcome |-> "none"]

NoHeaders ==
    /\ field_names = <<>>
    /\ orderings = NotCompared

Init ==
    /\ algo \in Algos
    /\ score \in Scores
    /\ NewFollower
    /\ playback_score = <<>>
    /\ delay = 0
    /\ NewPlayback
    /\ NoLoop
    /\ NoArgument
    /\ NoLibCall
    /\ NoHeaders

LiveNow == IF live = <<>> THEN 0 ELSE LastOf(live).time

\* the scores whose performances run one note longer than MaxLiveLen
LongPerformanceScores == {<<ScoreNote(0, 60, 100), ScoreNote(1, 62, 100)>>}

\* a score with a repeated pitch that is also played at half its tempo
SlowPerformanceScores ==
    {<<ScoreNote(0, 62, 100), ScoreNote(1, 60, 100), ScoreNote(2, 60, 100)>>}

SlowLiveGaps == {2}

LiveGapsOn(s) == IF s \in SlowPerformanceScores THEN LiveGaps \cup SlowLiveGaps ELSE LiveGaps

PushLive ==
    /\ ~panicked
    /\ \/ Len(live) < MaxLiveLen
       \/ Len(live) = MaxLiveLen /\ score \in LongPerformanceScores
    /\ \E p \in LivePitches, g \in LiveGapsOn(score) :
           push_live(ScoreNote(LiveNow + g, p, 100))
    /\ UNCHANGED <<algo, score, matches, ignored, match_offsets_by_pitch,
                   new_live_index, panicked>>
    /\ UNCHANGED play_vars
    /\ UNCHANGED loop_vars
    /\ UNCHANGED <<cli_vars, lib_vars, abc_vars>>

FollowScore ==
    /\ ~panicked
    /\ follow_score(new_live_index)
    /\ new_live_index' = IF panicked' THEN new_live_index ELSE Len(live)
    /\ UNCHANGED <<algo, score, live>>
    /\ UNCHANGED play_vars
    /\ UNCHANGED loop_vars
    /\ UNCHANGED <<cli_vars, lib_vars, abc_vars>>

Next == PushLive \/ FollowScore

Spec == Init /\ [][Next]_vars

-----------------------------------------------------------------------------
(* The scheduler called at arbitrary times between the live notes of a     *)
(* performance; each live note is pushed and followed before the next call *)

MaxPlaybackLen == 2
MaxPlayTime == 3

PlaybackGaps == {0, 1}
Delays == {0, 1}
LiveVelocities == {0, 90}
PlaybackMessages ==
    {MidiMessage("NoteOn", 0, 69, 80), MidiMessage("NoteOn", 1, 71, 0),
     MidiMessage("Controller", 2, 7, 30)}

\* playback scores of one message, with every timing
RECURSIVE PlaybackTimingsOfLen(_)
PlaybackTimingsOfLen(n) ==
    IF n = 0 THEN {<<>>}
    ELSE {Append(s, ScoreEvent((IF s = <<>> THEN 0 ELSE LastOf(s).time) + g,
                               MidiMessage("NoteOn", 0, 69, 80))) :
              s \in PlaybackTimingsOfLen(n - 1), g \in PlaybackGaps}

PlaybackTimings == UNION {PlaybackTimingsOfLen(n) : n \in 1..MaxPlaybackLen}

\* playback scores of every message, one event per tick
RECURSIVE PlaybackMessagesOfLen(_)
PlaybackMessagesOfLen(n) ==
    IF n = 0 THEN {<<>>}
    ELSE {Append(s, ScoreEvent(Len(s) + 1, m)) :
              s \in PlaybackMessagesOfLen(n - 1), m \in PlaybackMessages}

PlaybackMessageScores == UNION {PlaybackMessagesOfLen(n) : n \in 1..MaxPlaybackLen}

PlayExpectScores ==
    {<<ScoreNote(1, 60, 100), ScoreNote(2, 62, 100)>>,
     <<ScoreNote(1, 60, 100), ScoreNote(3, 62, 100)>>,
     <<ScoreNote(1, 60, 100), ScoreNote(1, 62, 100)>>}

PlayInit ==
    /\ algo = "PolyphonoFlex"
    /\ score \in PlayExpectScores
    /\ NewFollower
    /\ playback_score \in PlaybackTimings
    /\ delay \in Delays
    /\ NewPlayback
    /\ NoLoop
    /\ NoArgument
    /\ NoLibCall
    /\ NoHeaders

EncodeInit ==
    /\ algo = "PolyphonoFlex"
    /\ score = <<ScoreNote(1, 60, 100), ScoreNote(2, 62, 100)>>
    /\ NewFollower
    /\ playback_score \in PlaybackMessageScores
    /\ delay = 0
    /\ NewPlayback
    /\ NoLoop
    /\ NoArgument
    /\ NoLibCall
    /\ NoHeaders

PlayLiveNote(gaps, velocities) ==
    /\ ~panicked
    /\ new_live_index = Len(live)
    /\ Len(live) < MaxLiveLen
    /\ \E p \in ScorePitches, g \in gaps, v \in velocities :
           push_live(ScoreNote(LiveNow + g, p, v))
    /\ UNCHANGED <<algo, score, matches, ignored, match_offsets_by_pitch,
                   new_live_index, panicked>>
    /\ UNCHANGED play_vars
    /\ UNCHANGED loop_vars
    /\ UNCHANGED <<cli_vars, lib_vars, abc_vars>>

PlayPushLive == PlayLiveNote(LiveGaps, {100})

EncodePushLive == PlayLiveNote({1}, LiveVelocities)

PlayFollowScore ==
    /\ new_live_index < Len(live)
    /\ FollowScore
    /\ UNCHANGED <<cli_vars, lib_vars, abc_vars>>

PlayNext ==
    /\ ~panicked
    /\ matches # <<>>
    /\ new_live_index = Len(live)
    /\ \E t \in 0..MaxPlayTime :
           LET r == play_next(playback_head, t, delay)
           IN /\ last_play' = [called |-> TRUE, t |-> t, head |-> playback_head,
                               nmatches |-> Len(matches), outcome |-> r.outcome]
              /\ panicked' = (r.outcome = "panic")
              /\ IF r.outcome = "ok"
                 THEN /\ playback_head' = r.head
                      /\ score_wait' = r.wait
                      /\ sent' = sent \o [i \in 1..Len(r.buf) |->
                                             [index |-> r.buf[i].index,
                                              bytes |-> r.buf[i].bytes,
                                              nmatches |-> Len(matches)]]
                 ELSE UNCHANGED <<playback_head, score_wait, sent>>
    /\ UNCHANGED <<algo, score, live, matches, ignored, match_offsets_by_pitch,
                   new_live_index, playback_score, delay>>
    /\ UNCHANGED loop_vars
    /\ UNCHANGED <<cli_vars, lib_vars, abc_vars>>

PlaySpecNext == PlayPushLive \/ PlayFollowScore \/ PlayNext

SpecPlay == PlayInit /\ [][PlaySpecNext]_vars

EncodeSpecNext == EncodePushLive \/ PlayFollowScore \/ PlayNext

SpecEncode == EncodeInit /\ [][EncodeSpecNext]_vars

-----------------------------------------------------------------------------
(* The event loop of run, the input callback and the interrupt handler.   *)
(* The loop's own steps take no time; the wall clock moves while the loop  *)
(* waits in select!, and is read in whole ticks.                           *)

MaxLoopTime == 450
PollWait == 100

\* the interrupt signals of one run
MaxSignals == 3
StartTime == 10
StreamLen == 5
StreamGap == 80
Tempos == {1, 2}

Min(S) == CHOOSE x \in S : \A y \in S : x <= y

\* the whole ticks a wait of r ticks takes
CeilTicks(r) == (r.num + r.den - 1) \div r.den

LiveMessage(at, kind, pitch, velocity) ==
    [at |-> at, kind |-> kind, pitch |-> pitch, velocity |-> velocity]

\* the notes of the expectation score s, in order, at tempo T
PerformanceAtTempo(s, T) ==
    [i \in 1..Len(s) |->
        LiveMessage(StartTime + T * (s[i].time - s[1].time), "NoteOn", s[i].pitch, 90)]

LoopExpectScores ==
    {<<ScoreNote(0, 60, 100), ScoreNote(50, 62, 100)>>,
     <<ScoreNote(0, 60, 100), ScoreNote(200, 62, 100)>>}

LoopPlaybackScores ==
    {<<ScoreEvent(0, MidiMessage("NoteOn", 0, 69, 80)),
       ScoreEvent(25, MidiMessage("NoteOn", 0, 69, 0)),
       ScoreEvent(50, MidiMessage("NoteOn", 0, 71, 80))>>,
     <<ScoreEvent(0, MidiMessage("NoteOn", 0, 69, 80)),
       ScoreEvent(0, MidiMessage("Controller", 2, 7, 30)),
       ScoreEvent(150, MidiMessage("NoteOn", 0, 71, 80))>>}

\* what the performer may do with the expectation score s
Performances(s) ==
    {PerformanceAtTempo(s, T) : T \in Tempos}
    \cup {<<>>,
          \* a wrong note and a released key before the score
          <<LiveMessage(StartTime, "NoteOn", 61, 90),
            LiveMessage(StartTime + 5, "NoteOff", 61, 0)>>
              \o PerformanceAtTempo(s, 1),
          \* a stream of wrong notes, less than a poll interval apart
          [i \in 1..StreamLen |->
              LiveMessage(StartTime + StreamGap * (i - 1), "NoteOn", 61, 90)],
          \* a note-on of velocity 0 first, then all notes at once
          <<LiveMessage(StartTime, "NoteOn", 60, 0)>>
              \o [i \in 1..Len(s) |-> LiveMessage(StartTime + 20, "NoteOn", s[i].pitch, 90)],
          \* the notes of the score from the last to the first
          [i \in 1..Len(s) |->
              LiveMessage(StartTime + 20 * (i - 1), "NoteOn", s[Len(s) + 1 - i].pitch, 90)]}

LoopInit ==
    /\ algo = "PolyphonoFlex"
    /\ score \in LoopExpectScores
    /\ NewFollower
    /\ playback_score \in LoopPlaybackScores
    /\ delay \in {0, 2}
    /\ NewPlayback
    /\ now = 0
    /\ performance \in Performances(score)
    /\ arrived = 0
    /\ rx = <<>>
    /\ caught_ctrl_c = FALSE
    /\ caught_at = 0
    /\ handler = "idle"
    /\ signals = 0
    /\ conn_ok \in BOOLEAN
    /\ pc = "top"
    /\ play = FALSE
    /\ quit = FALSE
    /\ buf = <<>>
    /\ select_start = 0
    /\ NoArgument
    /\ NoLibCall
    /\ NoHeaders

Running == ~panicked /\ pc \in {"top", "select", "received"}

\* mutant: All Sound Off from channel 15 down to channel 0
midi_reset_descending ==
    [i \in 1..16 |->
        [index |-> None, bytes |-> write(MidiMessage("Controller", 16 - i, 120, 0)),
         nmatches |-> Len(matches)]]

\* the All Sound Off messages of handle_ctrl_c, channel 0 first
midi_reset ==
    [i \in 1..16 |->
        [index |-> None, bytes |-> write(MidiMessage("Controller", i - 1, 120, 0)),
         nmatches |-> Len(matches)]]

handle_ctrl_c == IF caught_ctrl_c THEN midi_reset ELSE <<>>

\* the input callback: a note-on is stamped with the time and passed on
Callback ==
    /\ Running
    /\ arrived < Len(performance)
    /\ performance[arrived + 1].at <= now
    /\ arrived' = arrived + 1
    /\ rx' = IF performance[arrived + 1].kind = "NoteOn"
             THEN Append(rx, ScoreNote(now, performance[arrived + 1].pitch,
                                       performance[arrived + 1].velocity))
             ELSE rx
    /\ UNCHANGED <<follower_vars, play_vars, now, performance, caught_ctrl_c, caught_at, conn_ok,
                   pc, play, quit, buf, select_start>>
    /\ UNCHANGED <<handler, signals, cli_vars, lib_vars, abc_vars>>

\* mutant: a signal that finds the flag set is dropped
CtrlCDropsRepeated ==
    /\ Running
    /\ handler = "idle"
    /\ signals < MaxSignals
    /\ signals' = signals + 1
    /\ handler' = IF caught_ctrl_c THEN "idle" ELSE "store"
    /\ UNCHANGED <<follower_vars, play_vars, now, performance, arrived, rx, caught_ctrl_c,
                   caught_at, conn_ok, pc, play, quit, buf, select_start>>
    /\ UNCHANGED <<cli_vars, lib_vars, abc_vars>>

\* the interrupt handler is called with a signal and loads the flag: if it
\* is set the process exits.  The handler thread takes one signal at a time.
CtrlC ==
    /\ Running
    /\ handler = "idle"
    /\ signals < MaxSignals
    /\ signals' = signals + 1
    /\ IF caught_ctrl_c
       THEN pc' = "killed" /\ UNCHANGED handler
       ELSE handler' = "store" /\ UNCHANGED pc
    /\ UNCHANGED <<follower_vars, play_vars, now, performance, arrived, rx, caught_ctrl_c,
                   caught_at, conn_ok, play, quit, buf, select_start>>
    /\ UNCHANGED <<cli_vars, lib_vars, abc_vars>>

\* the handler stores true in the flag and returns
CtrlCStore ==
    /\ Running
    /\ handler = "store"
    /\ caught_ctrl_c' = TRUE
    /\ caught_at' = now
    /\ handler' = "idle"
    /\ UNCHANGED <<follower_vars, play_vars, now, performance, arrived, rx, conn_ok,
                   pc, play, quit, buf, select_start, signals>>
    /\ UNCHANGED <<cli_vars, lib_vars, abc_vars>>

\* mutant: what was in buf before the scheduler ran is sent, and the
\* scheduler's bytes stay in buf
IterateKeepsOutput ==
    /\ Running
    /\ pc = "top"
    /\ LET playing == play /\ matches # <<>>
           r == IF playing THEN run_play_next(playback_head, now, delay)
                ELSE PlayResult("ok", <<>>, playback_head, score_wait)
           out == buf
           kept == [i \in 1..Len(r.buf) |->
                       [index |-> r.buf[i].index, bytes |-> r.buf[i].bytes,
                        nmatches |-> Len(matches)]]
       IN /\ play' = FALSE
          /\ last_play' = IF playing
                          THEN [called |-> TRUE, t |-> now, head |-> playback_head,
                                nmatches |-> Len(matches), outcome |-> r.outcome]
                          ELSE last_play
          /\ IF r.outcome = "panic"
             THEN /\ panicked' = TRUE
                  /\ UNCHANGED <<playback_head, score_wait, sent, buf, pc, select_start>>
             ELSE /\ playback_head' = r.head
                  /\ score_wait' = r.wait
                  /\ UNCHANGED panicked
                  /\ IF out # <<>> /\ ~conn_ok
                     THEN /\ pc' = "failed"
                          /\ buf' = out
                          /\ UNCHANGED <<sent, select_start>>
                     ELSE /\ sent' = sent \o [i \in 1..Len(out) |->
                                                 [index |-> out[i].index,
                                                  bytes |-> out[i].bytes,
                                                  nmatches |-> out[i].nmatches,
                                                  at |-> now]]
                          /\ buf' = kept
                          /\ pc' = IF quit THEN "returned" ELSE "select"
                          /\ select_start' = now
    /\ UNCHANGED <<algo, score, live, matches, ignored, match_offsets_by_pitch,
                   new_live_index, playback_score, delay, now, performance, arrived, rx,
                   caught_ctrl_c, caught_at, conn_ok, quit>>
    /\ UNCHANGED <<handler, signals, cli_vars, lib_vars, abc_vars>>

\* mutant: with play set and no match the event at the head is put out
IterateEmitsUnmatched ==
    /\ Running
    /\ pc = "top"
    /\ LET playing == play /\ matches # <<>>
           r == IF playing THEN run_play_next(playback_head, now, delay)
                ELSE IF play /\ playback_head < Len(playback_score)
                THEN PlayResult("ok",
                                <<[index |-> playback_head,
                                   bytes |-> encode_midi_event(
                                                 At(playback_score, playback_head), 0)]>>,
                                playback_head + 1, score_wait)
                ELSE PlayResult("ok", <<>>, playback_head, score_wait)
           out == buf \o [i \in 1..Len(r.buf) |->
                             [index |-> r.buf[i].index, bytes |-> r.buf[i].bytes,
                              nmatches |-> Len(matches)]]
       IN /\ play' = FALSE
          /\ last_play' = IF playing
                          THEN [called |-> TRUE, t |-> now, head |-> playback_head,
                                nmatches |-> Len(matches), outcome |-> r.outcome]
                          ELSE last_play
          /\ IF r.outcome = "panic"
             THEN /\ panicked' = TRUE
                  /\ UNCHANGED <<playback_head, score_wait, sent, buf, pc, select_start>>
             ELSE /\ playback_head' = r.head
                  /\ score_wait' = r.wait
                  /\ UNCHANGED panicked
                  /\ IF out # <<>> /\ ~conn_ok
                     THEN /\ pc' = "failed"
                          /\ buf' = out
                          /\ UNCHANGED <<sent, select_start>>
                     ELSE /\ sent' = sent \o [i \in 1..Len(out) |->
                                                 [index |-> out[i].index,
                                                  bytes |-> out[i].bytes,
                                                  nmatches |-> out[i].nmatches,
                                                  at |-> now]]
                          /\ buf' = <<>>
                          /\ pc' = IF quit THEN "returned" ELSE "select"
                          /\ select_start' = now
    /\ UNCHANGED <<algo, score, live, matches, ignored, match_offsets_by_pitch,
                   new_live_index, playback_score, delay, now, performance, arrived, rx,
                   caught_ctrl_c, caught_at, conn_ok, quit>>
    /\ UNCHANGED <<handler, signals, cli_vars, lib_vars, abc_vars>>

\* the top of the loop body down to select!: the scheduler is called when
\* play is set and a match exists, and buf is sent to the output port
Iterate ==
    /\ Running
    /\ pc = "top"
    /\ LET playing == play /\ matches # <<>>
           r == IF playing THEN run_play_next(playback_head, now, delay)
                ELSE PlayResult("ok", <<>>, playback_head, score_wait)
           out == buf \o [i \in 1..Len(r.buf) |->
                             [index |-> r.buf[i].index, bytes |-> r.buf[i].bytes,
                              nmatches |-> Len(matches)]]
       IN /\ play' = FALSE
          /\ last_play' = IF playing
                          THEN [called |-> TRUE, t |-> now, head |-> playback_head,
                                nmatches |-> Len(matches), outcome |-> r.outcome]
                          ELSE last_play
          /\ IF r.outcome = "panic"
             THEN /\ panicked' = TRUE
                  /\ UNCHANGED <<playback_head, score_wait, sent, buf, pc, select_start>>
             ELSE /\ playback_head' = r.head
                  /\ score_wait' = r.wait
                  /\ UNCHANGED panicked
                  /\ IF out # <<>> /\ ~conn_ok
                     THEN /\ pc' = "failed"
                          /\ buf' = out
                          /\ UNCHANGED <<sent, select_start>>
                     ELSE /\ sent' = sent \o [i \in 1..Len(out) |->
                                                 [index |-> out[i].index,
                                                  bytes |-> out[i].bytes,
                                                  nmatches |-> out[i].nmatches,
                                                  at |-> now]]
                          /\ buf' = <<>>
                          /\ pc' = IF quit THEN "returned" ELSE "select"
                          /\ select_start' = now
    /\ UNCHANGED <<algo, score, live, matches, ignored, match_offsets_by_pitch,
                   new_live_index, playback_score, delay, now, performance, arrived, rx,
                   caught_ctrl_c, caught_at, conn_ok, quit>>
    /\ UNCHANGED <<handler, signals, cli_vars, lib_vars, abc_vars>>

PollDeadline == select_start + PollWait

ScoreDeadline == select_start + CeilTicks(score_wait)

\* mutant: the shutdown poll sets quit and puts nothing in buf
SelectPollNoReset ==
    /\ Running
    /\ pc = "select"
    /\ now >= PollDeadline
    /\ quit' = (quit \/ caught_ctrl_c)
    /\ pc' = "top"
    /\ UNCHANGED <<follower_vars, play_vars, now, performance, arrived, rx,
                   caught_ctrl_c, caught_at, conn_ok, play, buf, select_start>>
    /\ UNCHANGED <<handler, signals, cli_vars, lib_vars, abc_vars>>

\* select!: the shutdown poll has expired
SelectPoll ==
    /\ Running
    /\ pc = "select"
    /\ now >= PollDeadline
    /\ buf' = buf \o handle_ctrl_c
    /\ quit' = (quit \/ caught_ctrl_c)
    /\ pc' = "top"
    /\ UNCHANGED <<follower_vars, play_vars, now, performance, arrived, rx,
                   caught_ctrl_c, caught_at, conn_ok, play, select_start>>
    /\ UNCHANGED <<handler, signals, cli_vars, lib_vars, abc_vars>>

\* select!: a live note is received and pushed to the follower
SelectMidi ==
    /\ Running
    /\ pc = "select"
    /\ rx # <<>>
    /\ push_live(Head(rx))
    /\ rx' = Tail(rx)
    /\ pc' = "received"
    /\ UNCHANGED <<algo, score, matches, ignored, match_offsets_by_pitch,
                   new_live_index, panicked>>
    /\ UNCHANGED <<play_vars, now, performance, arrived, caught_ctrl_c, caught_at, conn_ok,
                   play, quit, buf, select_start>>
    /\ UNCHANGED <<handler, signals, cli_vars, lib_vars, abc_vars>>

\* mutant: the follower runs on the new note and the loop goes straight back
\* to select!
LoopFollowScoreNoPass ==
    /\ Running
    /\ pc = "received"
    /\ follow_score(new_live_index)
    /\ new_live_index' = IF panicked' THEN new_live_index ELSE Len(live)
    /\ pc' = IF panicked' THEN pc ELSE "select"
    /\ UNCHANGED <<algo, score, live>>
    /\ UNCHANGED <<play_vars, now, performance, arrived, rx, caught_ctrl_c, caught_at, conn_ok,
                   play, quit, buf, select_start>>
    /\ UNCHANGED <<handler, signals, cli_vars, lib_vars, abc_vars>>

\* the rest of that branch: the follower runs on the new note
LoopFollowScore ==
    /\ Running
    /\ pc = "received"
    /\ follow_score(new_live_index)
    /\ new_live_index' = IF panicked' THEN new_live_index ELSE Len(live)
    /\ play' = IF panicked' THEN play ELSE TRUE
    /\ pc' = IF panicked' THEN pc ELSE "top"
    /\ UNCHANGED <<algo, score, live>>
    /\ UNCHANGED <<play_vars, now, performance, arrived, rx, caught_ctrl_c, caught_at, conn_ok,
                   quit, buf, select_start>>
    /\ UNCHANGED <<handler, signals, cli_vars, lib_vars, abc_vars>>

\* select!: the playback timer has expired
SelectScore ==
    /\ Running
    /\ pc = "select"
    /\ now >= ScoreDeadline
    /\ play' = TRUE
    /\ pc' = "top"
    /\ UNCHANGED <<follower_vars, play_vars, now, performance, arrived, rx,
                   caught_ctrl_c, caught_at, conn_ok, quit, buf, select_start>>
    /\ UNCHANGED <<handler, signals, cli_vars, lib_vars, abc_vars>>

\* nothing is ready: time passes until the next timer or the next message
Advance ==
    /\ Running
    /\ pc = "select"
    /\ rx = <<>>
    /\ now < PollDeadline
    /\ now < ScoreDeadline
    /\ arrived < Len(performance) => performance[arrived + 1].at > now
    /\ now' = Min({PollDeadline, ScoreDeadline}
                  \cup {performance[i].at : i \in {arrived + 1} \cap 1..Len(performance)})
    /\ now' <= MaxLoopTime
    /\ UNCHANGED <<follower_vars, play_vars, performance, arrived, rx, caught_ctrl_c, caught_at,
                   conn_ok, pc, play, quit, buf, select_start>>
    /\ UNCHANGED <<handler, signals, cli_vars, lib_vars, abc_vars>>

LoopNext ==
    \/ Callback
    \/ CtrlC
    \/ CtrlCStore
    \/ Iterate
    \/ SelectPoll
    \/ SelectMidi
    \/ LoopFollowScore
    \/ SelectScore
    \/ Advance

SpecLoop == LoopInit /\ [][LoopNext]_vars

-----------------------------------------------------------------------------
(* score.rs: Channels::from_str.  A string is a sequence of characters.    *)

MaxChannels == 2

u8_MAX == 255

u4_MAX == 15

RECURSIVE trim_start(_)
trim_start(s) == IF s # <<>> /\ Head(s) = " " THEN trim_start(Tail(s)) ELSE s

RECURSIVE trim_end(_)
trim_end(s) ==
    IF s # <<>> /\ s[Len(s)] = " " THEN trim_end(SubSeq(s, 1, Len(s) - 1)) ELSE s

\* str::trim
trim(s) == trim_end(trim_start(s))

\* position of the first c in s, counted from 1; 0 if there is none
RECURSIVE find(_, _, _)
find(s, c, i) ==
    IF i > Len(s) THEN 0 ELSE IF s[i] = c THEN i ELSE find(s, c, i + 1)

\* position of the last c in s, counted from 1; 0 if there is none
RECURSIVE rfind(_, _, _)
rfind(s, c, i) ==
    IF i < 1 THEN 0 ELSE IF s[i] = c THEN i ELSE rfind(s, c, i - 1)

\* s.rsplitn(2, c): the part after the last c first, then the rest
rsplitn2(s, c) ==
    LET i == rfind(s, c, Len(s))
    IN IF i = 0 THEN <<s>>
       ELSE <<SubSeq(s, i + 1, Len(s)), SubSeq(s, 1, i - 1)>>

\* s.split(c)
RECURSIVE split(_, _)
split(s, c) ==
    LET i == find(s, c, 1)
    IN IF i = 0 THEN <<s>>
       ELSE <<SubSeq(s, 1, i - 1)>> \o split(SubSeq(s, i + 1, Len(s)), c)

DigitChars == <<"0", "1", "2", "3", "4", "5", "6", "7", "8", "9">>

to_digit(c) ==
    IF \E d \in 1..10 : DigitChars[d] = c
    THEN (CHOOSE d \in 1..10 : DigitChars[d] = c) - 1
    ELSE None

RECURSIVE parse_digits(_, _, _)
parse_digits(s, acc, max) ==
    IF s = <<>> THEN acc
    ELSE LET d == to_digit(Head(s))
         IN IF d = None THEN None
            ELSE IF acc * 10 + d > max THEN None
            ELSE parse_digits(Tail(s), acc * 10 + d, max)

\* str::parse for an unsigned integer type of the given maximum: a leading +
\* is accepted, a - is not; None stands for Err
parse_unsigned(s, max) ==
    LET digits == IF s # <<>> /\ Head(s) = "+" THEN Tail(s) ELSE s
    IN IF digits = <<>> THEN None ELSE parse_digits(digits, 0, max)

parse_u8(s) == parse_unsigned(s, u8_MAX)

\* usize::MAX lies beyond the numbers of the model; the arguments drawn stay
\* far below the limit used here
parse_usize(s) == parse_unsigned(s, 2147483647)

ParseError(message, text) == [outcome |-> "err", message |-> message, text |-> text]

Parsed(value) == [outcome |-> "ok", value |-> value]

\* mutant: the channel number is taken as it is written
parse_channel_as_written(c) ==
    LET n == parse_u8(trim(c))
    IN IF n = None \/ n > u4_MAX THEN ParseError("Invalid MIDI channel number", c)
       ELSE Parsed(n)

\* the closure mapped over the channel list: n - 1 on a u8 panics for n = 0
\* when the build checks overflow and wraps to 255 when it does not
parse_channel(c) ==
    LET n == parse_u8(trim(c))
    IN IF n = None THEN ParseError("Invalid MIDI channel number", c)
       ELSE IF n = 0 /\ overflow_checks THEN [outcome |-> "panic"]
       ELSE LET m == (n - 1) % (u8_MAX + 1)
            IN IF m <= u4_MAX THEN Parsed(m)
               ELSE ParseError("Invalid MIDI channel number", c)

\* collect::<Result<Vec<u4>, _>>() stops at the first Err
RECURSIVE collect_channels(_, _)
collect_channels(pieces, acc) ==
    IF pieces = <<>> THEN Parsed(acc)
    ELSE LET r == parse_channel(Head(pieces))
         IN IF r.outcome # "ok" THEN r
            ELSE collect_channels(Tail(pieces), Append(acc, r.value))

from_str(s) ==
    LET parts == rsplitn2(s, ":")
        midi_channels == collect_channels(split(parts[1], ","), <<>>)
        track == IF Len(parts) < 2 THEN Parsed(1)
                 ELSE LET t == parse_usize(trim(parts[2]))
                      IN IF t = 0 THEN ParseError("Invalid track number", <<"0">>)
                         ELSE IF t = None
                         THEN ParseError("Invalid track number", parts[2])
                         ELSE Parsed(t)
    IN IF midi_channels.outcome = "panic" THEN midi_channels
       ELSE IF track.outcome = "err" THEN track
       ELSE IF midi_channels.outcome = "err" THEN midi_channels
       ELSE [outcome |-> "ok", track |-> track.value - 1,
             midi_channels |-> midi_channels.value]

(* The arguments: an optional track field and a colon, then up to          *)
(* MaxChannels channel fields separated by commas; each field is written   *)
(* with or without spaces around it.                                       *)

Field(text, numeric, value) == [text |-> text, numeric |-> numeric, value |-> value]

Fields ==
    {Field(<<>>, FALSE, 0), Field(<<"f", "o", "o">>, FALSE, 0),
     Field(<<"-", "1">>, TRUE, -1), Field(<<"0">>, TRUE, 0),
     Field(<<"1">>, TRUE, 1), Field(<<"7">>, TRUE, 7),
     Field(<<"1", "5">>, TRUE, 15), Field(<<"1", "6">>, TRUE, 16),
     Field(<<"1", "7">>, TRUE, 17), Field(<<"2", "5", "6">>, TRUE, 256)}

Written(f, spaced) == IF spaced THEN <<" ">> \o f.text \o <<" ">> ELSE f.text

ChannelsInit ==
    /\ algo = "PolyphonoFlex"
    /\ score = <<>>
    /\ NewFollower
    /\ playback_score = <<>>
    /\ delay = 0
    /\ NewPlayback
    /\ NoLoop
    /\ NoLibCall
    /\ NoHeaders
    /\ arg = <<>>
    /\ typed = NothingTyped
    /\ channels = NotParsed
    /\ overflow_checks \in BOOLEAN

TypeTrack ==
    /\ channels = NotParsed
    /\ typed = NothingTyped
    /\ \E f \in Fields, spaced \in BOOLEAN :
           /\ arg' = Written(f, spaced) \o <<":">>
           /\ typed' = [typed EXCEPT !.track = <<f>>]
    /\ UNCHANGED <<channels, overflow_checks>>
    /\ UNCHANGED <<follower_vars, play_vars, loop_vars, lib_vars, abc_vars>>

TypeChannel ==
    /\ channels = NotParsed
    /\ Len(typed.midi_channels) < MaxChannels
    /\ \E f \in Fields, spaced \in BOOLEAN :
           /\ arg' = arg \o (IF typed.midi_channels = <<>> THEN <<>> ELSE <<",">>)
                         \o Written(f, spaced)
           /\ typed' = [typed EXCEPT !.midi_channels = Append(@, f)]
    /\ UNCHANGED <<channels, overflow_checks>>
    /\ UNCHANGED <<follower_vars, play_vars, loop_vars, lib_vars, abc_vars>>

ParseChannels ==
    /\ channels = NotParsed
    /\ channels' = from_str(arg)
    /\ UNCHANGED <<arg, typed, overflow_checks>>
    /\ UNCHANGED <<follower_vars, play_vars, loop_vars, lib_vars, abc_vars>>

ChannelsNext == TypeTrack \/ TypeChannel \/ ParseChannels

SpecChannels == ChannelsInit /\ [][ChannelsNext]_vars

-----------------------------------------------------------------------------
(* lib.rs: the free function follow_score.  Times are u64 numbers; the     *)
(* score and the live performance are its arguments; an Option<Match> is  *)
(* the empty sequence or a sequence of one Match.                          *)

Match(score_index, live_index) == [score_index |-> score_index, live_index |-> live_index]

\* score[index2].time - score[index1].time; a negative result stands for the
\* underflow of the u64 subtraction
time_difference(notes, index1, index2) == At(notes, index2).time - At(notes, index1).time

\* the for loop of find_new_matches from live index i on
RECURSIVE lib_find_loop(_, _, _)
lib_find_loop(i, score_pointer, acc) ==
    IF i >= Len(live) THEN acc
    ELSE LET matching_index ==
                 find_next_match_starting_at(score_pointer, At(live, i).pitch)
         IN IF matching_index # None
            THEN lib_find_loop(i + 1, matching_index + 1,
                     [acc EXCEPT !.matches = Append(@, Match(matching_index, i))])
            ELSE lib_find_loop(i + 1, score_pointer,
                     [acc EXCEPT !.ignored = Append(@, i)])

lib_find_new_matches(prev_match_score_index, nli) ==
    lib_find_loop(nli,
                  IF prev_match_score_index = None THEN 0 ELSE prev_match_score_index + 1,
                  [matches |-> <<>>, ignored |-> <<>>])

\* (elapsed_live as f32) / (elapsed_score as f32)
lib_get_stretch_factor(elapsed_score, elapsed_live) == Ratio(elapsed_live, elapsed_score)

\* (elapsed_live as f32 / stretch_factor) as u64: the cast truncates, takes
\* NaN to 0 and saturates +infinity to u64::MAX, which is written None here
scaled_elapsed(elapsed_live, stretch_factor) ==
    IF IsNaN(stretch_factor) THEN 0
    ELSE IF stretch_factor.den = 0 THEN 0
    ELSE IF stretch_factor.num = 0 THEN (IF elapsed_live = 0 THEN 0 ELSE None)
    ELSE (elapsed_live * stretch_factor.den) \div stretch_factor.num

get_score_time(pm, stretch_factor) ==
    LET prev_score_time == At(score, IF pm = <<>> THEN 0 ELSE pm[1].score_index).time
        elapsed_live == time_difference(live, IF pm = <<>> THEN 0 ELSE pm[1].live_index,
                                        Len(live) - 1)
        scaled == scaled_elapsed(elapsed_live, stretch_factor)
    IN IF elapsed_live < 0
       THEN [outcome |-> IF overflow_checks THEN "panic" ELSE "wrapped"]
       ELSE IF scaled # None THEN [outcome |-> "ok", value |-> prev_score_time + scaled]
       ELSE IF prev_score_time = 0 THEN [outcome |-> "saturated"]
       ELSE IF overflow_checks THEN [outcome |-> "panic"]
       ELSE [outcome |-> "ok", value |-> prev_score_time - 1]

\* the result of follow_score(score, live, pm, nli, psf); live.len() - 1 of
\* an empty performance ends in a panic with and without overflow checks
lib_follow_score(pm, nli, psf) ==
    LET found == lib_find_new_matches(IF pm = <<>> THEN None ELSE pm[1].score_index, nli)
        chained == pm \o found.matches
        last == chained[Len(chained)]
        second_last == chained[Len(chained) - 1]
        elapsed_score == time_difference(score, second_last.score_index, last.score_index)
        elapsed_live == time_difference(live, second_last.live_index, last.live_index)
        stretch_factor == IF Len(chained) >= 2
                          THEN lib_get_stretch_factor(elapsed_score, elapsed_live)
                          ELSE psf
    IN IF live = <<>> THEN [outcome |-> "panic"]
       ELSE IF Len(chained) >= 2 /\ (elapsed_score < 0 \/ elapsed_live < 0)
       THEN [outcome |-> IF overflow_checks THEN "panic" ELSE "wrapped"]
       ELSE LET score_time == get_score_time(pm, stretch_factor)
            IN IF score_time.outcome # "ok" THEN score_time
               ELSE [outcome |-> "ok", score_time |-> score_time.value,
                     stretch_factor |-> stretch_factor,
                     new_matches |-> found.matches, ignored |-> found.ignored]

(* The callers of the function: a performance is recorded, then the        *)
(* function is applied to it with a previous match that pairs a score note *)
(* with an earlier live note of the same pitch, or with none.              *)

LibScores == UNION {ScoresOfLen(n) : n \in 1..(MaxScoreLen - 1)}

StretchFactors == {One, Ratio(2, 1)}

\* the previous matches a caller may hold when the notes from nli on are new
PrevMatches(nli) ==
    {<<>>} \cup {<<Match(si, li)>> : si \in 0..(Len(score) - 1), li \in 0..(nli - 1)}

Consistent(pm) ==
    IF pm = <<>> THEN TRUE
    ELSE At(score, pm[1].score_index).pitch = At(live, pm[1].live_index).pitch

LibInit ==
    /\ algo = "HomophonoPedantic"
    /\ score \in LibScores
    /\ NewFollower
    /\ playback_score = <<>>
    /\ delay = 0
    /\ NewPlayback
    /\ NoLoop
    /\ NoLibCall
    /\ NoHeaders
    /\ arg = <<>>
    /\ typed = NothingTyped
    /\ channels = NotParsed
    /\ overflow_checks \in BOOLEAN

LibPushLive ==
    /\ followed = NotFollowed
    /\ Len(live) < MaxLiveLen
    /\ \E p \in LivePitches, g \in LiveGaps :
           push_live(ScoreNote(LiveNow + g, p, 100))
    /\ UNCHANGED <<algo, score, matches, ignored, match_offsets_by_pitch,
                   new_live_index, panicked>>
    /\ UNCHANGED <<play_vars, loop_vars, cli_vars, lib_vars, abc_vars>>

LibFollowScore ==
    /\ followed = NotFollowed
    /\ \E nli \in 0..Len(live), psf \in StretchFactors :
           \E pm \in PrevMatches(nli) :
               /\ Consistent(pm)
               /\ new_live_index' = nli
               /\ caller_prev_match' = pm
               /\ caller_stretch_factor' = psf
               /\ followed' = lib_follow_score(pm, nli, psf)
    /\ UNCHANGED <<algo, score, live, matches, ignored, match_offsets_by_pitch, panicked>>
    /\ UNCHANGED <<play_vars, loop_vars, cli_vars, abc_vars>>

LibNext == LibPushLive \/ LibFollowScore

SpecLib == LibInit /\ [][LibNext]_vars

-----------------------------------------------------------------------------
(* Properties of the followers *)

MatchedLiveIndices == {matches[i].live_index : i \in 1..Len(matches)}
IgnoredLiveIndices == {ignored[i] : i \in 1..Len(ignored)}
Processed == ~panicked /\ new_live_index = Len(live)

\* C1: driven as the event loop drives it (live notes pushed, then
\* follow_score from the first unprocessed index), after every follow_score
\* the live indices in matches and in ignored are pairwise distinct and are
\* exactly 0..|live|-1, so |matches| + |ignored| = |live|.
C1_LiveIndicesPartition ==
    Processed =>
        /\ Len(matches) + Len(ignored) = Len(live)
        /\ MatchedLiveIndices \cup IgnoredLiveIndices = 0..(Len(live) - 1)
        /\ Cardinality(MatchedLiveIndices) = Len(matches)
        /\ Cardinality(IgnoredLiveIndices) = Len(ignored)
        /\ MatchedLiveIndices \cap IgnoredLiveIndices = {}

C1_Witness ==
    /\ Processed
    /\ Len(live) = 2
    /\ Len(matches) = 1
    /\ Len(ignored) = 1

\* C2: the strict matcher's matches are strictly increasing in live_index
\* and strictly increasing in score_index.
C2_StrictMatchesIncreasing ==
    algo = "HomophonoPedantic" =>
        \A i, j \in 1..Len(matches) :
            i < j => /\ matches[i].live_index < matches[j].live_index
                     /\ matches[i].score_index < matches[j].score_index

C2_Witness ==
    /\ algo = "HomophonoPedantic"
    /\ Len(matches) = 2
    /\ matches[2].score_index > matches[1].score_index + 1

\* C3: every match resolves to an expectation-score note of the same pitch
\* as the live note it points to.
C3_MatchPitchesEqual ==
    \A i \in 1..Len(matches) :
        At(score, matches_slice[i].score_index).pitch = At(live, matches[i].live_index).pitch

C3_Witness ==
    /\ Len(matches) = 2
    /\ At(live, matches[1].live_index).pitch # At(live, matches[2].live_index).pitch
    /\ Len(ignored) = 0

IsFinitePositive(k) == k.den > 0 /\ k.num > 0

\* C4: every stretch_factor stored in a match is finite and strictly
\* positive, for scores sorted by time and live notes with non-decreasing
\* timestamps.
C4_StretchFinitePositive ==
    \A i \in 1..Len(matches) : IsFinitePositive(matches[i].stretch_factor)

\* C5: every match made while an earlier match exists has stretch_factor =
\* (its live time - the live time of the match before it) / (its score time -
\* the score time of the match before it).
\* (Stated for the matches whose score time lies after that of the match
\* before them, where the quotient is a number.)
C5_StretchFromPreviousMatch ==
    \A i \in 2..Len(matches) :
        LET cur == matches_slice[i]
            prev == matches_slice[i - 1]
            elapsed_live == At(live, cur.live_index).time - At(live, prev.live_index).time
            elapsed_score == At(score, cur.score_index).time - At(score, prev.score_index).time
        IN elapsed_score > 0 =>
               cur.stretch_factor = Ratio(elapsed_live, elapsed_score)

\* C6: the first match ever made has stretch_factor exactly 1.0.
C6_FirstMatchStretchOne ==
    Len(matches) >= 1 => matches[1].stretch_factor = One

C6_Witness ==
    /\ Len(matches) >= 1
    /\ At(live, matches[1].live_index).time > 0
    /\ matches_slice[1].score_index > 0
    /\ At(score, matches_slice[1].score_index).time
           # At(live, matches[1].live_index).time

-----------------------------------------------------------------------------
(* Properties of the scheduler *)

\* the first index from head on whose event is later than ts, or the length
RECURSIVE DueHead(_, _)
DueHead(head, ts) ==
    IF head >= Len(playback_score) THEN head
    ELSE IF RLeq(FromTicks(At(playback_score, head).time), ts)
         THEN DueHead(head + 1, ts)
         ELSE head

SentIndices == [i \in 1..Len(sent) |-> sent[i].index]

\* C7: one call of play_next with a match emits every playback event from
\* head on whose score time is <= ts = ts_prev + (t - t_prev + delay) / k,
\* and the new head is past the end or at an event whose score time is > ts
C7_PlayNextEmitsAllDue ==
    [][(PlayNext /\ last_play'.outcome = "ok" /\ playback_head < Len(playback_score))
         => LET ts == score_time_now(last_play'.t, delay)
                new_head == DueHead(playback_head, ts)
            IN /\ playback_head' = new_head
               /\ SentIndices' = SentIndices \o
                      [i \in 1..(new_head - playback_head) |-> playback_head + i - 1]]_vars

\* C8: over the calls of the scheduler and the new matches between them the
\* head never decreases, no event is put out twice, every event before the
\* head has been put out, and the events go out in the order of the playback
\* score with score times that never go back
C8_EmissionInScoreOrder ==
    /\ [](/\ \A i, j \in 1..Len(sent) : i < j => sent[i].index < sent[j].index
          /\ {sent[i].index : i \in 1..Len(sent)} = 0..(playback_head - 1)
          /\ \A i, j \in 1..Len(sent) :
                 i < j => At(playback_score, sent[i].index).time
                              <= At(playback_score, sent[j].index).time)
    /\ [][playback_head' >= playback_head]_vars

\* two calls have put out one event each, with a new match between them
C8_Witness ==
    /\ Len(sent) = 2
    /\ playback_head = 2
    /\ sent[1].nmatches = 1
    /\ sent[2].nmatches = 2

\* C9: a note-on of velocity other than 0 goes out with the live velocity of
\* the latest match and its own key and channel; a note-on of velocity 0 and
\* every other message go out as they are in the playback score
C9_EncodedVelocity ==
    \A i \in 1..Len(sent) :
        LET message == At(playback_score, sent[i].index).message
            latest == matches_slice[sent[i].nmatches]
            velocity == At(live, latest.live_index).velocity
        IN /\ sent[i].bytes[1] = StatusOf(message.kind) + message.channel
           /\ sent[i].bytes[2] = message.key
           /\ sent[i].bytes[3] = IF message.kind = "NoteOn" /\ message.vel # 0
                                 THEN velocity ELSE message.vel

\* a message that is no sounding note-on went out at the first match, and a
\* sounding note-on at the second match, whose live velocity is not the first's
C9_Witness ==
    /\ Len(sent) = 2
    /\ Len(matches) = 2
    /\ At(playback_score, 0).message.kind = "Controller"
    /\ At(playback_score, 1).message.kind = "NoteOn"
    /\ At(playback_score, 1).message.vel # 0
    /\ sent[2].nmatches = 2
    /\ At(live, matches[1].live_index).velocity = 0
    /\ sent[2].bytes[3] = 90

-----------------------------------------------------------------------------
(* Properties of the event loop *)

Abs(x) == IF x < 0 THEN -x ELSE x

\* C10: when the performer plays the notes of the expectation score in order
\* at a constant tempo T, the playback events go out in the order of the
\* playback score, and two events that go out one after the other are
\* T times their score interval apart on the wall clock, within one tick
C10_ConstantTempoIntervals ==
    \A T \in Tempos :
        (performance = PerformanceAtTempo(score, T) /\ conn_ok /\ ~caught_ctrl_c)
            => \A i \in 1..(Len(sent) - 1) :
                   /\ sent[i].index < sent[i + 1].index
                   /\ Abs((sent[i + 1].at - sent[i].at)
                          - T * (At(playback_score, sent[i + 1].index).time
                                 - At(playback_score, sent[i].index).time)) <= 1

\* C11: once the loop has seen the shutdown flag it sends controller 120 with
\* value 0 once for each channel 0..15, in that order, sends no playback event
\* after them, and returns; nothing of the kind is sent at any other time
C11_ShutdownAllSoundOff ==
    /\ (quit /\ conn_ok) => pc \in {"top", "returned", "killed"}
    /\ (quit /\ pc = "top") =>
           /\ Len(buf) = 16
           /\ \A ch \in 0..15 : buf[ch + 1].bytes = <<176 + ch, 120, 0>>
    /\ (pc = "returned" \/ \E i \in 1..Len(sent) : sent[i].index = None) =>
           /\ pc = "returned"
           /\ quit
           /\ Len(sent) >= 16
           /\ \A ch \in 0..15 : sent[Len(sent) - 16 + ch + 1].bytes = <<176 + ch, 120, 0>>
           /\ \A i \in 1..(Len(sent) - 16) : sent[i].index # None

\* the loop has returned after playback events and the sixteen messages
C11_Witness ==
    /\ pc = "returned"
    /\ Len(sent) > 16
    /\ sent[1].index = 0

\* C12: once the shutdown flag is set the loop observes it and returns,
\* whatever live notes arrive and playback timers expire meanwhile: the poll,
\* due every PollWait, is not put off by them time after time, so a running
\* loop has seen the flag when three poll intervals have passed
C12_ShutdownObserved ==
    (Running /\ caught_ctrl_c /\ ~quit) => now - caught_at <= 3 * PollWait

-----------------------------------------------------------------------------
(* Further properties of the followers *)

\* C13: with an expectation score sorted by time and live notes whose time
\* stamps never go back, follow_score of the flex matcher never fails: it
\* returns no error and does not panic
C13_FlexFollowNeverFails ==
    algo = "PolyphonoFlex" => ~panicked

\* C14: the matches of the flex matcher, read with global score indices, are
\* strictly increasing in score_index and in live_index
C14_FlexMatchesIncreasing ==
    algo = "PolyphonoFlex" =>
        \A i, j \in 1..Len(matches) :
            i < j => /\ matches_slice[i].live_index < matches_slice[j].live_index
                     /\ matches_slice[i].score_index < matches_slice[j].score_index

\* the first offset from off0 on whose score note is nearest to mapped
Closest(score_for_pitch, off0, mapped) ==
    LET Diff(i) == absolute_time_difference(
                       FromTicks(At(score, At(score_for_pitch, i)).time), mapped)
        rest == off0..(Len(score_for_pitch) - 1)
    IN CHOOSE i \in rest :
           \A j \in rest : /\ RLeq(Diff(i), Diff(j))
                           /\ (RLeq(Diff(j), Diff(i)) => i <= j)

\* C15: a live note whose pitch has occurrences in the score from the offset
\* after the latest match of that pitch on is paired by the flex matcher with
\* the one of them nearest to the mapped live time, the first of them on a
\* tie: stopping the scan at the first difference that is not smaller never
\* misses a nearer occurrence further on
C15_FlexPicksClosest ==
    [][(FollowScore /\ algo = "PolyphonoFlex" /\ ~panicked')
         => \A li \in new_live_index..(Len(live) - 1) :
                LET note == At(live, li)
                    off0 == get_next_unmatched_offset_for_pitch(note.pitch)
                    score_for_pitch == score_offsets_by_pitch[note.pitch]
                    mapped == live_time_mapped(note.time)
                IN off0 < Len(score_for_pitch)
                     => \E k \in (Len(matches) + 1)..Len(matches') :
                            /\ matches'[k].live_index = li
                            /\ matches'[k].score_per_pitch_index
                                   = Closest(score_for_pitch, off0, mapped)]_vars

-----------------------------------------------------------------------------
(* Further properties of the scheduler *)

\* C16: a call of the scheduler with a time t before the live time of the
\* latest match reports an error, puts out no playback event and leaves the
\* head where it is
C16_ClockRegressionIsError ==
    [][(PlayNext /\ last_play'.t < At(live, LastOf(matches_slice).live_index).time)
         => /\ last_play'.outcome = "err"
            /\ playback_head' = playback_head
            /\ sent' = sent]_vars

-----------------------------------------------------------------------------
(* Failure of follow_score *)

\* C17: a failing follow_score leaves matches, ignored and the per-pitch match
\* offsets as they were before the call: what the call found before it failed
\* is not committed
C17_FailedFollowCommitsNothing ==
    [][(FollowScore /\ panicked')
         => UNCHANGED <<matches, ignored, match_offsets_by_pitch>>]_vars

\* a call has failed after it had found a match or an ignored note
C17_Witness ==
    /\ panicked
    /\ LET found == find_new_matches(new_live_index)
       IN found.panic /\ (found.matches # <<>> \/ found.ignored # <<>>)

-----------------------------------------------------------------------------
(* Properties of Channels::from_str *)

ValidTrack(f) == f.numeric /\ f.value >= 1
ValidChannel(f) == f.numeric /\ f.value \in 1..16

WellFormed ==
    /\ typed.track # <<>> => ValidTrack(typed.track[1])
    /\ typed.midi_channels # <<>>
    /\ \A i \in 1..Len(typed.midi_channels) : ValidChannel(typed.midi_channels[i])

\* C18: an argument 'ch[,ch...]' or 'track:ch[,ch...]' with track >= 1 and
\* every ch in 1..16, with or without spaces around the fields, parses to the
\* track minus one (0 without a track field) and the channels minus one each,
\* in the order written
C18_ChannelsParsed ==
    (channels # NotParsed /\ WellFormed)
      => channels =
           [outcome |-> "ok",
            track |-> IF typed.track = <<>> THEN 0 ELSE typed.track[1].value - 1,
            midi_channels |-> [i \in 1..Len(typed.midi_channels)
                                 |-> typed.midi_channels[i].value - 1]]

\* " 7 : 1 , 15 " has been parsed
C18_Witness ==
    /\ arg = <<" ", "7", " ", ":", " ", "1", " ", ",", " ", "1", "5", " ">>
    /\ channels # NotParsed

\* C19: an argument whose track field is 0, negative, empty or not a number,
\* or one of whose channel fields is 0, above 16, negative, empty or not a
\* number, yields an error: no panic and no wrapped number
C19_MalformedChannelsRejected ==
    (channels # NotParsed /\ ~WellFormed) => channels.outcome = "err"

-----------------------------------------------------------------------------
(* Properties of the free function follow_score of lib.rs *)

\* the match this call made for the latest live note, if it made one
LatestMatched ==
    LET found == lib_find_new_matches(IF caller_prev_match = <<>> THEN None
                                      ELSE caller_prev_match[1].score_index,
                                      new_live_index)
    IN {m \in {found.matches[i] : i \in 1..Len(found.matches)} :
            m.live_index = Len(live) - 1}

\* C20: when the latest live note was matched in this call, the score time
\* returned is the score time of the note it was matched to, whatever the
\* previous match (also none) and however many new matches there are
C20_ScoreTimeOfLatestMatch ==
    followed # NotFollowed
      => \A m \in LatestMatched :
             /\ followed.outcome = "ok"
             /\ followed.score_time = At(score, m.score_index).time

-----------------------------------------------------------------------------
(* Properties of the interrupt handler *)

\* C21: the flag, once set, stays set; a signal that finds the flag set ends
\* the process at once; a signal that finds it clear leads to the store of
\* true, whatever the event loop does between the load and the store
C21_HandlerSetsThenExits ==
    [][/\ caught_ctrl_c => caught_ctrl_c'
       /\ (signals' # signals /\ caught_ctrl_c) => pc' = "killed"
       /\ (signals' # signals /\ ~caught_ctrl_c) => (handler' = "store" /\ pc' = pc)
       /\ handler = "store" => (handler' = "store" \/ caught_ctrl_c')
       /\ pc' = "killed" => (signals' # signals /\ caught_ctrl_c)]_vars

\* a second signal has ended the process after the loop had polled the flag
C21_Witness == pc = "killed" /\ caught_ctrl_c /\ quit

-----------------------------------------------------------------------------
(* Frame properties of the followers *)

IsPrefix(a, b) == Len(a) <= Len(b) /\ \A i \in 1..Len(a) : b[i] = a[i]

\* C22: push_live and follow_score only append to live, matches and
\* ignored: every element keeps its index and its value
C22_AppendOnly ==
    [][/\ IsPrefix(live, live')
       /\ IsPrefix(matches, matches')
       /\ IsPrefix(ignored, ignored')]_vars

\* a follow_score has added a match to the match of an earlier call (its
\* stretch factor was computed against that match), and a note was ignored
C22_Witness ==
    /\ Len(matches) >= 2
    /\ matches[2].stretch_factor # One
    /\ ignored # <<>>

-----------------------------------------------------------------------------
(* Stretch factor of a match on a chord *)

\* C23: a match whose score note has the score time of the previous match's
\* score note stores 1.0 or the stretch factor of the previous match
C23_ChordStretchPolicy ==
    \A i \in 2..Len(matches) :
        At(score, matches_slice[i].score_index).time
            = At(score, matches_slice[i - 1].score_index).time
          => matches[i].stretch_factor \in {One, matches[i - 1].stretch_factor}

-----------------------------------------------------------------------------
(* The cursor of the strict matcher *)

\* the cursor when live note li is looked at: just after the latest match of
\* an earlier live note, 0 if there is none
CursorAt(li) ==
    LET earlier == {i \in 1..Len(matches) : matches[i].live_index < li}
    IN IF earlier = {} THEN 0
       ELSE matches[CHOOSE i \in earlier : \A j \in earlier : j <= i].score_index + 1

\* the score indices at or after the cursor that hold the pitch of live note li
Candidates(li) ==
    {k \in CursorAt(li)..(Len(score) - 1) : At(score, k).pitch = At(live, li).pitch}

\* C24: the strict matcher pairs a live note with the first score note of its
\* pitch at or after the cursor, and every live note that has such a score
\* note is paired; the cursor then stands just after that score note, so the
\* score notes skipped are below every later match
C24_StrictPairsFirstAtCursor ==
    algo = "HomophonoPedantic" =>
        /\ \A i \in 1..Len(matches) :
               /\ matches[i].score_index \in Candidates(matches[i].live_index)
               /\ \A k \in Candidates(matches[i].live_index) : matches[i].score_index <= k
               /\ \A j \in 1..Len(matches) :
                      j > i => matches[j].score_index > matches[i].score_index
        /\ \A li \in 0..(new_live_index - 1) :
               Candidates(li) # {} => li \in MatchedLiveIndices

\* the first match has skipped the first score note
C24_Witness ==
    /\ algo = "HomophonoPedantic"
    /\ Processed
    /\ Len(matches) >= 1
    /\ matches[1].score_index >= 1
    /\ Len(live) >= 2

\* C25: the strict matcher ignores a live note exactly when no score note at
\* or after the cursor has its pitch; ignoring adds no match and leaves the
\* cursor, so a later note is searched from the same place; after the last
\* score note is matched every further live note is ignored
C25_StrictIgnoresAndKeepsCursor ==
    algo = "HomophonoPedantic" =>
        /\ \A n \in 1..Len(ignored) :
               /\ Candidates(ignored[n]) = {}
               /\ ignored[n] \notin MatchedLiveIndices
        /\ \A i \in 1..Len(matches) :
               \A li \in 0..(new_live_index - 1) :
                   (matches[i].score_index = Len(score) - 1 /\ li > matches[i].live_index)
                       => li \in IgnoredLiveIndices
        /\ \A i \in 1..Len(matches) :
               \A n \in 1..Len(ignored) :
                   (ignored[n] < matches[i].live_index
                    /\ \A j \in 1..Len(matches) :
                           j # i => ~(ignored[n] < matches[j].live_index
                                      /\ matches[j].live_index < matches[i].live_index))
                       => CursorAt(matches[i].live_index) = CursorAt(ignored[n])

\* a note was ignored between two matches
C25_Witness ==
    /\ algo = "HomophonoPedantic"
    /\ Processed
    /\ Len(matches) = 2
    /\ ignored = <<matches[1].live_index + 1>>
    /\ matches[2].live_index = matches[1].live_index + 2

-----------------------------------------------------------------------------
(* The pitch buckets of the flex matcher *)

\* C26: the flex matcher's matches of one pitch have strictly increasing
\* bucket offsets in match order, also when one follow_score takes several
\* new live notes: no score note is matched by two live notes
C26_FlexBucketOffsetsIncrease ==
    algo = "PolyphonoFlex" =>
        \A i, j \in 1..Len(matches) :
            (i < j /\ At(live, matches[i].live_index).pitch
                        = At(live, matches[j].live_index).pitch)
              => matches[i].score_per_pitch_index < matches[j].score_per_pitch_index


\* C27: a live note whose pitch is not in the expectation score is put in
\* ignored by the flex matcher, gets no match and changes no per-pitch list
\* of match offsets, in every state of the matcher
C27_FlexIgnoresAbsentPitch ==
    [][(FollowScore /\ algo = "PolyphonoFlex")
         => \A li \in new_live_index..(Len(live) - 1) :
                score_offsets_by_pitch[At(live, li).pitch] = <<>>
                  => /\ \E n \in 1..Len(ignored') : ignored'[n] = li
                     /\ \A k \in 1..Len(matches') : matches'[k].live_index # li
                     /\ match_offsets_by_pitch'[At(live, li).pitch]
                            = match_offsets_by_pitch[At(live, li).pitch]]_vars


\* C28: while the flex matcher has no match, every live time is mapped to 0
\* and a live note whose pitch occurs in the score is paired with the first
\* occurrence of its pitch, whatever the score time of that occurrence
C28_FlexFirstMatchTakesFirstOccurrence ==
    [][(FollowScore /\ algo = "PolyphonoFlex" /\ matches = <<>>)
         => \A li \in new_live_index..(Len(live) - 1) :
                /\ live_time_mapped(At(live, li).time) = ZeroDur
                /\ score_offsets_by_pitch[At(live, li).pitch] # <<>>
                     => \E k \in 1..Len(matches') :
                            /\ matches'[k].live_index = li
                            /\ matches'[k].score_per_pitch_index = 0]_vars

-----------------------------------------------------------------------------
(* Events of one moment, and the wait until the next one *)

\* the first index after head whose event has another time than the event at
\* head, or the length
RECURSIVE MomentEnd(_, _)
MomentEnd(head, i) ==
    IF i >= Len(playback_score) THEN i
    ELSE IF At(playback_score, i).time = At(playback_score, head).time
         THEN MomentEnd(head, i + 1)
         ELSE i

\* C29: when the event at head is due, the events that share its time are
\* put out in one call of the scheduler, in the order of the playback score,
\* and the head is then just past the last of them
C29_MomentEmittedTogether ==
    [][(PlayNext /\ last_play'.outcome = "ok" /\ playback_head < Len(playback_score)
        /\ RLeq(FromTicks(At(playback_score, playback_head).time),
                score_time_now(last_play'.t, delay)))
         => LET new_head == MomentEnd(playback_head, playback_head)
            IN /\ playback_head' = new_head
               /\ SentIndices' = SentIndices \o
                      [i \in 1..(new_head - playback_head) |-> playback_head + i - 1]]_vars

\* the latest call has put out two events of one time
C29_Witness ==
    /\ last_play.called
    /\ last_play.outcome = "ok"
    /\ playback_head = last_play.head + 2
    /\ Len(sent) >= 2
    /\ At(playback_score, last_play.head).time = At(playback_score, last_play.head + 1).time

\* the wait is the stretched score time until the event at the new head
WaitIsStretchedGap(ts, k) ==
    (playback_head' < Len(playback_score)
     /\ RLeq(ts, FromTicks(At(playback_score, playback_head').time)))
        => score_wait' = stretch(RSub(FromTicks(At(playback_score, playback_head').time), ts), k)

\* no event of score time ts is left at or after the new head
EventsAtNowEmitted(ts) ==
    \A i \in playback_head..(Len(playback_score) - 1) :
        (RLeq(FromTicks(At(playback_score, i).time), ts)
         /\ RLeq(ts, FromTicks(At(playback_score, i).time)))
            => /\ i < playback_head'
               /\ \E j \in (Len(sent) + 1)..Len(sent') : sent'[j].index = i

\* C30: when the head is inside the playback score after the advance and the
\* next event is not before ts, the wait of play_next is (ts_next - ts) x k
\* for the latest match's stretch factor k; an event whose score time is
\* exactly ts is due and is put out by the call
C30_WaitUntilNextEvent ==
    [][(PlayNext /\ last_play'.outcome = "ok" /\ playback_head < Len(playback_score))
         => LET ts == score_time_now(last_play'.t, delay)
                k == LastOf(matches_slice).stretch_factor
            IN /\ WaitIsStretchedGap(ts, k)
               /\ EventsAtNowEmitted(ts)]_vars

-----------------------------------------------------------------------------
(* The end of the playback score *)

\* C31: a call of play_next that ends with the head past the end of the
\* playback score returns the long idle wait of one hour, whether the head
\* was past the end at entry or got there in the call; with the head past
\* the end at entry nothing is put out and the head stays
C31_IdleWaitPastEnd ==
    [][(PlayNext /\ last_play'.outcome = "ok"
        /\ playback_head' >= Len(playback_score))
         => /\ score_wait' = FromTicks(IdleWait)
            /\ playback_head >= Len(playback_score)
                   => (sent' = sent /\ playback_head' = playback_head)]_vars

-----------------------------------------------------------------------------
(* The order of the work of the event loop *)

\* pitch and velocity of the notes of a sequence
NotesOf(s) == [i \in 1..Len(s) |-> <<s[i].pitch, s[i].velocity>>]

\* the note-ons among the first n messages of the performance
RECURSIVE NoteOnsOf(_)
NoteOnsOf(n) ==
    IF n = 0 THEN <<>>
    ELSE IF performance[n].kind = "NoteOn"
         THEN Append(NoteOnsOf(n - 1), <<performance[n].pitch, performance[n].velocity>>)
         ELSE NoteOnsOf(n - 1)

\* the live buffer and the queue behind it are the notes in the order the
\* callback got them
LiveInArrivalOrder == NotesOf(live \o rx) = NoteOnsOf(arrived)

\* a step takes at most one note, the head of the queue, into the live buffer
OneNotePerIteration ==
    live' # live => /\ pc = "select" /\ pc' = "received"
                    /\ rx # <<>>
                    /\ live' = Append(live, Head(rx))
                    /\ rx' = Tail(rx)

\* once a note is taken, nothing more is taken before the loop has been at
\* its top with play set and has left it by a scheduler pass (when a match
\* exists), unless the process is ended first
PassAfterEachNote ==
    /\ (pc = "received" /\ pc' # pc /\ pc' # "killed") => (pc' = "top" /\ play' /\ ~panicked')
    /\ (pc = "top" /\ play /\ pc' = "top") => (play' \/ panicked')
    /\ (pc = "top" /\ play /\ pc' # "top" /\ pc' # "killed" /\ matches # <<>>)
           => /\ last_play'.called
              /\ last_play'.t = now
              /\ last_play'.head = playback_head
              /\ last_play'.nmatches = Len(matches)
              /\ last_play'.outcome = "ok"
    /\ (pc = "top" /\ pc' = "select") => live' = live
    /\ (pc # "top" /\ pc # "select") => pc' # "select"

\* C32: the loop takes at most one live note per iteration, the live buffer
\* holds the notes in the order the callback queued them, and after every
\* note taken the scheduler is called once (when a match exists) before the
\* next note is taken
C32_OneNoteThenOnePass ==
    /\ [](LiveInArrivalOrder)
    /\ [][OneNotePerIteration /\ PassAfterEachNote]_vars

\* two notes of a burst were queued together; the first is in the live
\* buffer, the scheduler has been called since it was taken, and the second
\* is still in the queue
C32_Witness ==
    /\ pc = "select"
    /\ rx # <<>>
    /\ matches # <<>>
    /\ At(live, Len(live) - 1).time = Head(rx).time
    /\ At(live, Len(live) - 1).time = now
    /\ last_play.called
    /\ last_play.t = now
    /\ last_play.nmatches = Len(matches)
    /\ sent # <<>>

-----------------------------------------------------------------------------
(* The outbound buffer *)

\* the playback events from index a up to index b - 1
EventIndices(a, b) == [i \in 1..(b - a) |-> a + i - 1]

IndicesOf(s) == [i \in 1..Len(s) |-> s[i].index]

\* the step from the top of the loop to select! or to the return sends what
\* was in buf and then what the scheduler put out in this step, in that order
SentInSameIteration ==
    (pc = "top" /\ pc' \in {"select", "returned"})
        => /\ Len(sent') = Len(sent) + Len(buf) + (playback_head' - playback_head)
           /\ IndicesOf(sent') =
                  IndicesOf(sent) \o IndicesOf(buf)
                      \o EventIndices(playback_head, playback_head')
           /\ \A i \in (Len(sent) + 1)..Len(sent') : sent'[i].at = now
           /\ \A i \in 1..Len(buf) : sent'[Len(sent) + i].bytes = buf[i].bytes

\* C33: when the loop starts to wait in select! buf is empty; the bytes of a
\* scheduler step have gone to the output port, in the order they were put
\* out, in the iteration that produced them and before another live note is
\* taken
C33_BufferFlushedBeforeWait ==
    /\ [](pc \in {"select", "received"} => buf = <<>>)
    /\ [][SentInSameIteration /\ (live' # live => buf = <<>>)
          /\ (playback_head' # playback_head => pc' # "top")]_vars

\* the loop waits and the scheduler step of this iteration has sent an event
C33_Witness ==
    /\ pc = "select"
    /\ buf = <<>>
    /\ last_play.called
    /\ last_play.t = now
    /\ playback_head > last_play.head
    /\ sent # <<>>
    /\ sent[Len(sent)].index = playback_head - 1
    /\ sent[Len(sent)].at = now
    /\ select_start = now

-----------------------------------------------------------------------------
(* The playback timer *)

\* the loop waits, the performance is over and no interrupt has come
QuietWait ==
    /\ Running
    /\ pc = "select"
    /\ arrived = Len(performance)
    /\ rx = <<>>
    /\ signals = 0
    /\ ~caught_ctrl_c

\* C34: with a match, the head inside the playback score, no further live
\* note and no shutdown request, the playback timer armed with the wait the
\* scheduler returned expires and the scheduler runs again, whatever the
\* wait, also when it is longer than the shutdown poll: the loop is not found
\* waiting after the time the scheduler asked to be called again.  (A wait of
\* exactly the poll interval is left out: select! then chooses between two
\* ready timers.)
C34_PlaybackTimerExpires ==
    (/\ QuietWait
     /\ matches # <<>>
     /\ last_play.called
     /\ playback_head < Len(playback_score)
     /\ CeilTicks(score_wait) # PollWait)
        => now <= last_play.t + CeilTicks(score_wait)

-----------------------------------------------------------------------------
(* Nothing is played before the first match *)

\* C35: no playback event goes to the output port before the first match
\* exists, whatever timers expire, polls are made and live notes are ignored
\* before it: without a match nothing of the playback score has been sent and
\* the head is at the start, and every playback event sent was put out with a
\* match
C35_NoEmissionBeforeFirstMatch ==
    /\ matches = <<>> => /\ \A i \in 1..Len(sent) : sent[i].index = None
                         /\ \A i \in 1..Len(buf) : buf[i].index = None
                         /\ playback_head = 0
                         /\ ~last_play.called
    /\ \A i \in 1..Len(sent) : sent[i].index # None => sent[i].nmatches > 0

\* live notes have been ignored and both timers have expired, and there is
\* still no match
C35_Witness ==
    /\ matches = <<>>
    /\ Len(ignored) >= 2
    /\ now >= 2 * PollWait
    /\ pc = "select"
    /\ select_start = now
    /\ sent = <<>>

-----------------------------------------------------------------------------
(* The match offsets per pitch *)

\* the indices into matches, from i on, of the matches whose live note has
\* pitch p, in increasing order
RECURSIVE MatchIndicesOfPitch(_, _)
MatchIndicesOfPitch(p, i) ==
    IF i >= Len(matches) THEN <<>>
    ELSE IF At(live, At(matches, i).live_index).pitch = p
         THEN <<i>> \o MatchIndicesOfPitch(p, i + 1)
         ELSE MatchIndicesOfPitch(p, i + 1)

\* C36: after every follow_score of the flex matcher the list of match
\* offsets of each pitch is the increasing list of the indices into matches of
\* the matches whose live note has that pitch; the list of a pitch that got no
\* match in a call is as it was
C36_OffsetsIndexMatchesOfPitch ==
    /\ [](algo = "PolyphonoFlex"
            => \A p \in DOMAIN match_offsets_by_pitch :
                   match_offsets_by_pitch[p] = MatchIndicesOfPitch(p, 0))
    /\ [][algo = "PolyphonoFlex"
            => \A p \in DOMAIN match_offsets_by_pitch :
                   (\A i \in (Len(matches) + 1)..Len(matches') :
                        At(live, matches'[i].live_index).pitch # p)
                       => match_offsets_by_pitch'[p] = match_offsets_by_pitch[p]]_vars

\* two calls have made matches of two pitches, the later one at index 1
C36_Witness ==
    /\ algo = "PolyphonoFlex"
    /\ Len(matches) = 2
    /\ matches[2].stretch_factor # One
    /\ \E p, q \in DOMAIN match_offsets_by_pitch :
           /\ p # q
           /\ match_offsets_by_pitch[p] = <<0>>
           /\ match_offsets_by_pitch[q] = <<1>>
    /\ ignored # <<>>

-----------------------------------------------------------------------------
(* abc.rs: the order of the header field names.  A name is one character, *)
(* given by its code point.                                                *)

First == 0
Second == 1
Middle == 2
Last == 3

Char_K == 75
Char_T == 84
Char_X == 88

\* 'A', 'I', 'K', 'O', 'T', 'X', 'Z', 'k', 't', 'x'
FieldNames == {65, 73, Char_K, 79, Char_T, Char_X, 90, 107, 116, 120}

\* Ord of char and of the derived InfoFieldOrder
cmp_int(a, b) == IF a < b THEN "Less" ELSE IF a = b THEN "Equal" ELSE "Greater"

\* mutant: every name is in the middle
decorate_all_middle(c) == <<Middle, c>>

decorate(c) ==
    IF c = Char_X THEN <<First, Char_X>>
    ELSE IF c = Char_T THEN <<Second, Char_T>>
    ELSE IF c = Char_K THEN <<Last, Char_K>>
    ELSE <<Middle, c>>

\* Ord of the pair (InfoFieldOrder, char): the first component decides unless
\* it is equal
cmp_decorated(l, r) ==
    IF cmp_int(l[1], r[1]) # "Equal" THEN cmp_int(l[1], r[1]) ELSE cmp_int(l[2], r[2])

cmp(self, other) == cmp_decorated(decorate(self), decorate(other))

AbcInit ==
    /\ algo = "PolyphonoFlex"
    /\ score = <<>>
    /\ NewFollower
    /\ playback_score = <<>>
    /\ delay = 0
    /\ NewPlayback
    /\ NoLoop
    /\ NoArgument
    /\ NoLibCall
    /\ field_names \in FieldNames \X FieldNames \X FieldNames
    /\ orderings = NotCompared

\* the three names are compared with each other
CompareNames ==
    /\ orderings = NotCompared
    /\ orderings' = [outcome |-> "compared",
                     ab |-> cmp(field_names[1], field_names[2]),
                     ba |-> cmp(field_names[2], field_names[1]),
                     bc |-> cmp(field_names[2], field_names[3]),
                     ac |-> cmp(field_names[1], field_names[3])]
    /\ UNCHANGED <<follower_vars, play_vars, loop_vars, cli_vars, lib_vars, field_names>>

AbcNext == CompareNames

SpecAbc == AbcInit /\ [][AbcNext]_vars

Reverse(o) == IF o = "Less" THEN "Greater" ELSE IF o = "Greater" THEN "Less" ELSE "Equal"

\* C37: the order of the header field names is a total order: two names are
\* always comparable, equal only when they are the same name, a before b
\* exactly when b after a, and a before b before c gives a before c.  X is
\* before every other name, T before every name but X, K after every other
\* name, and the other names are in the order of their characters
C37_FieldNameOrder ==
    orderings.outcome = "compared"
        => LET a == field_names[1]
               b == field_names[2]
           IN /\ orderings.ab \in {"Less", "Equal", "Greater"}
              /\ orderings.ab = "Equal" <=> a = b
              /\ orderings.ba = Reverse(orderings.ab)
              /\ (orderings.ab = "Less" /\ orderings.bc = "Less") => orderings.ac = "Less"
              /\ (orderings.ab # "Greater" /\ orderings.bc # "Greater")
                     => orderings.ac # "Greater"
              /\ (a = Char_X /\ b # Char_X) => orderings.ab = "Less"
              /\ (a = Char_T /\ b \notin {Char_X, Char_T}) => orderings.ab = "Less"
              /\ (a = Char_K /\ b # Char_K) => orderings.ab = "Greater"
              /\ (a \notin {Char_X, Char_T, Char_K} /\ b \notin {Char_X, Char_T, Char_K})
                     => orderings.ab = cmp_int(a, b)

\* X, then Z, then K: against the order of the characters
C37_Witness ==
    /\ orderings.outcome = "compared"
    /\ field_names = <<Char_X, 90, Char_K>>
    /\ orderings.ab = "Less"
    /\ orderings.bc = "Less"
    /\ orderings.ac = "Less"

-----------------------------------------------------------------------------
(* Live note-ons of velocity 0 *)

\* C38: a live note-on of velocity 0 is never paired with a note of the
\* expectation score, and so no playback note-on of a velocity other than 0
\* goes out with velocity 0
C38_ReleasedKeyNeverMatched ==
    /\ \A i \in 1..Len(matches) : At(live, matches[i].live_index).velocity # 0
    /\ \A i \in 1..Len(sent) :
           (/\ sent[i].index # None
            /\ At(playback_score, sent[i].index).message.kind = "NoteOn"
            /\ At(playback_score, sent[i].index).message.vel # 0)
               => sent[i].bytes[3] # 0

-----------------------------------------------------------------------------
(* The two followers on a performance of the score as written *)

StrictlyIncreasingTimes(s) == \A i \in 1..(Len(s) - 1) : s[i].time < s[i + 1].time

\* the live notes are the first notes of the score, pitch by pitch
PlaysTheScore ==
    /\ Len(live) <= Len(score)
    /\ \A i \in 1..Len(live) : live[i].pitch = score[i].pitch

\* score index, live index and stretch factor of the matches
MatchTriples == [i \in 1..Len(matches) |->
                    <<matches_slice[i].score_index, matches_slice[i].live_index,
                      matches_slice[i].stretch_factor>>]

\* the first n live notes paired with the first n score notes, each with the
\* stretch factor of the step from the pair before it
PairedInOrder(n) ==
    [i \in 1..n |->
        <<i - 1, i - 1,
          IF i = 1 THEN One
          ELSE Ratio(live[i].time - live[i - 1].time, score[i].time - score[i - 1].time)>>]

\* C39: on a score of strictly increasing times, played pitch by pitch in the
\* order of the score with strictly increasing live times and followed one
\* note per call, the strict and the flex follower make the same matches
\* (score index, live index, stretch factor) and ignore nothing: each of them,
\* from the matches of the notes so far, pairs the new note with the next
\* score note
C39_FollowersAgreeOnScoreAsWritten ==
    [][(/\ new_live_index' # new_live_index
        /\ StrictlyIncreasingTimes(score)
        /\ StrictlyIncreasingTimes(live)
        /\ PlaysTheScore
        /\ new_live_index = Len(live) - 1
        /\ ignored = <<>>
        /\ MatchTriples = PairedInOrder(Len(live) - 1))
         => /\ ~panicked'
            /\ ignored' = <<>>
            /\ MatchTriples' = PairedInOrder(Len(live))]_vars

-----------------------------------------------------------------------------
(* How the event loop ends *)

\* the latest sixteen messages sent are All Sound Off on channels 0..15
AllSoundOffSent ==
    /\ Len(sent) >= 16
    /\ \A ch \in 0..15 : sent[Len(sent) - 16 + ch + 1].bytes = <<176 + ch, 120, 0>>

\* run has returned Ok after a shutdown
EndedByShutdown == pc = "returned"

\* run has ended with an error of the output port, or with an error or a
\* panic of the follower or of the scheduler
EndedByError == pc = "failed" \/ panicked

\* C40 as stated: every end of the event loop, by shutdown or by an error of
\* the matcher, the scheduler or the output port, comes after All Sound Off
\* has been sent on all 16 channels
C40_AllSoundOffBeforeEveryEnd ==
    (EndedByShutdown \/ EndedByError) => AllSoundOffSent

\* C40, amended: the end of the event loop by shutdown comes after All Sound
\* Off has been sent on all 16 channels; when the loop ends by an error of
\* the matcher, the scheduler or the output port, All Sound Off has not been
\* sent
C40_AllSoundOffOnShutdownOnly ==
    /\ EndedByShutdown => (quit /\ AllSoundOffSent)
    /\ EndedByError => (~EndedByShutdown /\ ~AllSoundOffSent)

\* the loop has ended by an error after playback events were sent
C40_Witness ==
    /\ EndedByError
    /\ sent # <<>>
    /\ sent[Len(sent)].index # None
    /\ matches # <<>>

=============================================================================
